---- MODULE Spec2Model ----
(***************************************************************************)
(* Model of the appointment bot (bot.py, calendar_manager.py,              *)
(* user_manager.py): the booking and registration dialogues, the Italian   *)
(* date/time resolver, the availability check and the calendar commit.     *)
(*                                                                         *)
(* Texts are sequences of lexical tokens (words, numbers, HH:MM, DD/MM).   *)
(* Instants are minutes since Monday 2024-01-01 00:00, Europe/Rome.        *)
(* Of the replies handed to the chat transport the model keeps the outcome *)
(* of the last confirmation; the calendar, the profile store and the       *)
(* speech services are collaborators whose failures are modelled.          *)
(***************************************************************************)
EXTENDS Integers, Sequences, FiniteSets, TLC

VARIABLES
    now,                 \* the wall clock read by datetime.now(timezone)
    service,             \* CalendarManager.service: "ok", or "none" when setup_service failed
    users_data,          \* UserManager.users_data
    registration_flows,  \* TelegramBot.registration_flows
    booking_flows,       \* TelegramBot.booking_flows
    insert_calls,        \* the events().insert requests the backend received, in order
    register_calls,      \* history: the calls of register_user, in order
    tasks,               \* the confirmation handlers suspended at an await
    reply,               \* the last message sent: whose confirmation it answers, and how
    users_file,          \* UserManager.data_file: the profiles the last successful write left
    conversation_history,\* TelegramBot.conversation_history
    returned             \* the last call of the resolver or of the intent detector, and its value

vars == <<now, service, users_data, registration_flows, booking_flows,
          insert_calls, register_calls, tasks, reply, users_file, conversation_history,
          returned>>

-----------------------------------------------------------------------------
(* Bounds of the model. *)

Users == {1, 2}
\* insert requests in a serial run
MaxInserts == 1
\* calls of register_user
MaxRegisters == 1
\* confirmation handlers suspended at once
MaxTasks == 2
\* insert requests when confirmation handlers interleave
MaxRaceInserts == 2

-----------------------------------------------------------------------------
(* Lexical tokens and texts. *)

W(s) == [k |-> "w", s |-> s, a |-> 0, b |-> 0, c |-> 0]
N(n) == [k |-> "n", s |-> "", a |-> n, b |-> 0, c |-> 0]
HM(h, m) == [k |-> "hm", s |-> "", a |-> h, b |-> m, c |-> 0]
DMY(d, m, y) == [k |-> "dmy", s |-> "", a |-> d, b |-> m, c |-> y]

\* str.lower() on the words of the vocabulary; every other word is lower case already
LowerWord(s) ==
    CASE s = "Sì" -> "sì"
      [] s = "SI" -> "si"
      [] s = "Visita" -> "visita"
      [] s = "Domani" -> "domani"
      [] s = "Mario@Example.com" -> "mario@example.com"
      [] s = "[USER_ID:1]" -> "[user_id:1]"
      [] OTHER -> s

\* str.title() on the words of the vocabulary
TitleWord(s) ==
    CASE s = "mario" -> "Mario"
      [] s = "rossi" -> "Rossi"
      [] s = "forse" -> "Forse"
      [] s = "sì" -> "Sì"
      [] s = "si" -> "Si"
      [] s = "no" -> "No"
      [] s = "via" -> "Via"
      [] s = "roma" -> "Roma"
      [] s = "milano" -> "Milano"
      [] s = "[USER_ID:1]" -> "[User_Id:1]"
      [] OTHER -> s

MapWords(text, F(_)) ==
    [i \in 1..Len(text) |->
        IF text[i].k = "w" THEN [text[i] EXCEPT !.s = F(text[i].s)] ELSE text[i]]

\* the text as it was typed
AsTyped(text) == text

Lower(text) == MapWords(text, LowerWord)
Title(text) == MapWords(text, TitleWord)

\* the characters of a word that the email check looks for
HasChar(s, ch) ==
    CASE s = "mario@example.com" -> ch \in {"@", "."}
      [] s = "Mario@Example.com" -> ch \in {"@", "."}
      [] s = "mario@example" -> ch = "@"
      [] s = "mario.rossi" -> ch = "."
      [] OTHER -> FALSE

\* `ch in text` for a single character
CharIn(ch, text) == \E i \in 1..Len(text) : text[i].k = "w" /\ HasChar(text[i].s, ch)

\* `needle in text` for a token sequence
SeqIn(needle, text) ==
    \E i \in 0..(Len(text) - Len(needle)) :
        \A j \in 1..Len(needle) : text[i + j] = needle[j]

WordIn(s, text) == \E i \in 1..Len(text) : text[i] = W(s)

-----------------------------------------------------------------------------
(* Python dictionaries are functions whose domain is the set of keys held. *)

EmptyDict == [x \in {} |-> 0]
Put(d, key, v) == [x \in (DOMAIN d) \cup {key} |-> IF x = key THEN v ELSE d[x]]
\* a dictionary that forgets nothing
Kept(d, key) == d
Del(d, key) == [x \in (DOMAIN d) \ {key} |-> d[x]]

\* Optional values: <<>> is None, <<v>> is the value v
NoValue == <<>>
Some(v) == <<v>>

-----------------------------------------------------------------------------
(* Date arithmetic of datetime/timedelta, in minutes since 2024-01-01 00:00. *)

EpochYear == 2000 + 24
MinutesPerDay == 24 * 60
DefaultHour == 9

IsLeap(y) == (y % 4 = 0 /\ y % 100 # 0) \/ y % 400 = 0
YearLen(y) == IF IsLeap(y) THEN 366 ELSE 365

DaysInMonth(y, m) ==
    CASE m \in {1, 3, 5, 7, 8, 10, 12} -> 31
      [] m \in {4, 6, 9, 11} -> 30
      [] OTHER -> IF IsLeap(y) THEN 29 ELSE 28

RECURSIVE DaysBeforeYear(_)
DaysBeforeYear(y) ==
    IF y = EpochYear THEN 0
    ELSE IF y > EpochYear THEN DaysBeforeYear(y - 1) + YearLen(y - 1)
    ELSE DaysBeforeYear(y + 1) - YearLen(y)

RECURSIVE DaysBeforeMonth(_, _)
DaysBeforeMonth(y, m) ==
    IF m = 1 THEN 0 ELSE DaysBeforeMonth(y, m - 1) + DaysInMonth(y, m - 1)

RECURSIVE YearFrom(_, _)
YearFrom(y, d) == IF d < YearLen(y) THEN y ELSE YearFrom(y + 1, d - YearLen(y))

DayOf(t) == t \div MinutesPerDay
YearOf(t) == YearFrom(EpochYear, DayOf(t))
Weekday(t) == DayOf(t) % 7                 \* datetime.weekday(): Monday is 0
KeepTime(t, h, m) == t                     \* the instant, its hour and minute kept
AtTime(t, h, m) == DayOf(t) * MinutesPerDay + h * 60 + m   \* replace(hour, minute, second=0)
SameDay(t, n) == t                         \* the instant, no days added
PlusDays(t, n) == t + n * MinutesPerDay    \* t + timedelta(days=n)

\* datetime(year, month, day, 9, 0) raises ValueError on an impossible date
ValidDate(y, m, d) == y \in 1..9999 /\ m \in 1..12 /\ d \in 1..DaysInMonth(y, m)

_parse_date_dmy(tok, default_year) ==
    LET day == tok.a
        month == tok.b
        year == IF tok.c # 0 THEN tok.c ELSE default_year
    IN  IF ValidDate(year, month, day)
        THEN Some((DaysBeforeYear(year) + DaysBeforeMonth(year, month) + day - 1)
                    * MinutesPerDay + DefaultHour * 60)
        ELSE NoValue

-----------------------------------------------------------------------------
(* CalendarManager.parse_datetime_natural *)

giorni == <<"lunedì", "martedì", "mercoledì", "giovedì", "venerdì", "sabato", "domenica">>

\* index of the first token of the text that satisfies P, 0 when there is none
FirstIndex(text, P(_)) ==
    IF \E i \in 1..Len(text) : P(text[i])
    THEN CHOOSE i \in 1..Len(text) : P(text[i]) /\ \A j \in 1..(i - 1) : ~P(text[j])
    ELSE 0

\* the four date patterns, tried in order; the first that matches decides
DateAnchor(text, clock) ==
    LET IsDmy(tok) == tok.k = "dmy"
        i == FirstIndex(text, IsDmy)
    IN  IF i # 0 THEN _parse_date_dmy(text[i], YearOf(clock))
        ELSE IF WordIn("oggi", text) THEN Some(AtTime(clock, DefaultHour, 0))
        ELSE IF WordIn("domani", text) THEN Some(AtTime(PlusDays(clock, 1), DefaultHour, 0))
        ELSE IF WordIn("dopodomani", text) THEN Some(AtTime(PlusDays(clock, 2), DefaultHour, 0))
        ELSE NoValue

\* a weekday scan that finds no name
NoWeekday(text, clock) == NoValue

\* a weekday scan that takes the day of the clock when it is the day named
WeekdayAnchorSameWeek(text, clock) ==
    IF \E g \in 1..7 : WordIn(giorni[g], text)
    THEN LET g == CHOOSE g \in 1..7 :
                      WordIn(giorni[g], text) /\ \A h \in 1..(g - 1) : ~WordIn(giorni[h], text)
             diff == (g - 1) - Weekday(clock)
             days_ahead == IF diff < 0 THEN diff + 7 ELSE diff
         IN  Some(AtTime(PlusDays(clock, days_ahead), DefaultHour, 0))
    ELSE NoValue

\* the weekday names, tried in the order of the dictionary
WeekdayAnchor(text, clock) ==
    IF \E g \in 1..7 : WordIn(giorni[g], text)
    THEN LET g == CHOOSE g \in 1..7 :
                      WordIn(giorni[g], text) /\ \A h \in 1..(g - 1) : ~WordIn(giorni[h], text)
             diff == (g - 1) - Weekday(clock)
             days_ahead == IF diff <= 0 THEN diff + 7 ELSE diff
         IN  Some(AtTime(PlusDays(clock, days_ahead), DefaultHour, 0))
    ELSE NoValue

ValidTime(hm) == hm[1] \in 0..23 /\ hm[2] \in 0..59

\* (\d{1,2}):(\d{2}) : the first HH:MM of the text
TimeHM(text) ==
    LET IsHm(tok) == tok.k = "hm"
        i == FirstIndex(text, IsHm)
    IN  IF i # 0 THEN Some(<<text[i].a, text[i].b>>) ELSE NoValue

\* \b(\d{1,2})\s*(?:ore|h)\b : the first number followed by the hour word
TimeOre(text) ==
    LET Hit(i) == text[i].k = "n" /\ i < Len(text) /\ text[i + 1] \in {W("ore"), W("h")}
    IN  IF \E i \in 1..Len(text) : Hit(i)
        THEN LET i == CHOOSE i \in 1..Len(text) : Hit(i) /\ \A j \in 1..(i - 1) : ~Hit(j)
             IN  Some(<<text[i].a, 0>>)
        ELSE NoValue

\* alle\s+(\d{1,2})(?::(\d{2}))? : the first "alle" followed by HH or HH:MM
TimeAlle(text) ==
    LET Hit(i) == text[i] = W("alle") /\ i < Len(text) /\ text[i + 1].k \in {"n", "hm"}
    IN  IF \E i \in 1..Len(text) : Hit(i)
        THEN LET i == CHOOSE i \in 1..Len(text) : Hit(i) /\ \A j \in 1..(i - 1) : ~Hit(j)
             IN  Some(<<text[i + 1].a, text[i + 1].b>>)
        ELSE NoValue

\* the three time patterns in order: a pattern that matches a valid time ends the
\* loop, a pattern that matches an invalid one is passed over
TimeOfDay(text) ==
    LET p1 == TimeHM(text)
        p2 == TimeOre(text)
        p3 == TimeAlle(text)
    IN  IF p1 # NoValue /\ ValidTime(p1[1]) THEN p1
        ELSE IF p2 # NoValue /\ ValidTime(p2[1]) THEN p2
        ELSE IF p3 # NoValue /\ ValidTime(p3[1]) THEN p3
        ELSE NoValue

parse_datetime_natural(raw, clock) ==
    LET text == Lower(raw)
        anchor == DateAnchor(text, clock)
        parsed_date == IF anchor # NoValue THEN anchor ELSE WeekdayAnchor(text, clock)
        time == TimeOfDay(text)
    IN  IF parsed_date = NoValue THEN NoValue
        ELSE IF time = NoValue THEN parsed_date
        ELSE Some(AtTime(parsed_date[1], time[1][1], time[1][2]))

-----------------------------------------------------------------------------
(* TelegramBot.detect_booking_intent *)

keywords_booking ==
    <<<<"prenota">>, <<"appuntamento">>, <<"prenotare">>, <<"prenotazione">>,
      <<"fissare">>, <<"fissa">>, <<"meeting">>, <<"incontro">>, <<"riunione">>,
      <<"disponibilità">>, <<"libero">>, <<"impegnato">>, <<"possiamo", "vederci">>,
      <<"ci", "vediamo">>, <<"passo", "da", "te">>, <<"vengo", "da", "te">>,
      <<"facciamo", "insieme">>, <<"controllo", "completo">>, <<"vieni", "a", "casa">>,
      <<"vieni", "qui">>, <<"incontriamoci">>, <<"quando", "puoi", "venire">>,
      <<"quando", "sei", "disponibile">>, <<"quando", "puoi", "passare">>,
      <<"vediamoci">>, <<"faccio", "un", "salto">>, <<"risolvo", "tutto", "io">>,
      <<"sistemo", "tutto">>, <<"quando", "sei", "libero">>, <<"quando", "puoi">>,
      <<"voglio", "vederti">>, <<"dobbiamo", "incontrarci">>, <<"organizziamo">>,
      <<"pianifichiamo">>, <<"domani", "alle">>, <<"dopodomani", "alle">>,
      <<"lunedì", "alle">>, <<"martedì", "alle">>, <<"mercoledì", "alle">>,
      <<"giovedì", "alle">>, <<"venerdì", "alle">>, <<"sabato", "alle">>,
      <<"domenica", "alle">>, <<"settimana", "prossima">>,
      <<"la", "prossima", "settimana">>, <<"questo", "weekend">>,
      <<"voglio", "prenotare">>, <<"devo", "prenotare">>, <<"vorrei", "prenotare">>,
      <<"posso", "prenotare">>, <<"ho", "bisogno", "di">>,
      <<"serve", "un", "appuntamento">>, <<"mi", "serve">>, <<"assistenza">>,
      <<"supporto", "tecnico">>, <<"riparazione">>, <<"installazione">>,
      <<"configurazione">>, <<"problema", "pc">>, <<"problema", "computer">>, <<"virus">>,
      <<"backup">>, <<"aggiornamento">>, <<"formazione">>,
      <<"consulenza", "informatica">>, <<"manutenzione">>, <<"rete">>, <<"wifi">>,
      <<"software">>, <<"hardware">>, <<"sistema">>, <<"computer", "lento">>,
      <<"non", "funziona">>, <<"errore">>, <<"crash">>, <<"blocco">>,
      <<"schermo", "blu">>, <<"reinstallazione">>, <<"non", "riesco">>,
      <<"non", "so", "come">>, <<"non", "capisco">>, <<"aiutami">>, <<"mi", "aiuti">>,
      <<"puoi", "aiutarmi">>, <<"servirebbe", "il", "tuo", "aiuto">>,
      <<"vieni", "a", "vedere">>, <<"calendario">>, <<"agenda">>, <<"programmare">>,
      <<"slot">>, <<"orario">>, <<"consultazione">>, <<"visita">>, <<"sessione">>>>

booking_phrases ==
    <<<<"voglio", "un", "appuntamento">>, <<"ho", "bisogno", "di", "un", "appuntamento">>,
      <<"possiamo", "fissare">>, <<"vorrei", "fissare">>, <<"devo", "fissare">>,
      <<"prendiamo", "un", "appuntamento">>, <<"fissiamo", "un", "incontro">>,
      <<"organizziamo", "un", "meeting">>, <<"quando", "ci", "possiamo", "vedere">>,
      <<"quando", "possiamo", "vederci">>, <<"sei", "libero">>, <<"hai", "tempo">>,
      <<"possiamo", "incontrarci">>,
      <<"se", "non", "funziona", ",", "possiamo", "vederci">>,
      <<"passo", "da", "te", "e", "sistemo", "tutto">>,
      <<"facciamo", "un", "controllo", "completo", "insieme">>,
      <<"vengo", "direttamente", "da", "te">>,
      <<"se", "continua", "così", ",", "prenotiamo">>, <<"risolvo", "tutto", "io">>,
      <<"sistemo", "tutto">>, <<"faccio", "un", "salto", "da", "te">>,
      <<"vieni", "a", "vedere">>, <<"quando", "vuoi", "che", "vengo">>,
      <<"preferisci", "che", "vengo">>, <<"ci", "vediamo", "e", "risolviamo">>,
      <<"incontriamoci", "e", "vediamo">>, <<"proviamo", "insieme">>,
      <<"ti", "guido", "al", "telefono", "o", "vengo", "da", "te">>,
      <<"quando", "ti", "va", "bene">>, <<"che", "ne", "dici", "di", "domani">>,
      <<"posso", "venire", "a", "fare">>, <<"vengo", "a", "controllare">>,
      <<"ti", "do", "una", "mano", "di", "persona">>, <<"facciamo", "insieme">>,
      <<"quando", "preferisci", "che", "passo">>, <<"oggi", "verso", "sera">>,
      <<"domani", "pomeriggio">>>>

\* the keywords that occur inside a longer word of the vocabulary
Stems(s) ==
    CASE s = "prenotare" -> {"prenota"}
      [] s = "parete" -> {"rete"}
      [] OTHER -> {}

WordHas(tok, key) == tok.k = "w" /\ (tok.s = key \/ key \in Stems(tok.s))

\* `key in text_lower` for a keyword or phrase of one or more words
KeyIn(key, text) ==
    \E i \in 0..(Len(text) - Len(key)) :
        \A j \in 1..Len(key) : WordHas(text[i + j], key[j])

detect_booking_intent(raw) ==
    LET text_lower == Lower(raw)
        keyword_match == \E n \in 1..Len(keywords_booking) : KeyIn(keywords_booking[n], text_lower)
        phrase_match == \E n \in 1..Len(booking_phrases) : KeyIn(booking_phrases[n], text_lower)
    IN  keyword_match \/ phrase_match

-----------------------------------------------------------------------------
(* UserManager *)

\* a check that lets everyone through
registered_always(u) == TRUE

is_user_registered(u) == u \in DOMAIN users_data

\* update.effective_user.first_name
first_name(u) == <<W("tg" \o ToString(u))>>

\* register_user: the profile stored, which replaces any profile the user had
register_user(u, telegram_name, nome, cognome, email, telefono, via, citta) ==
    Put(users_data, u,
        [telegram_name |-> telegram_name, nome |-> nome, cognome |-> cognome,
         email |-> email, telefono |-> telefono, via |-> via, citta |-> citta,
         registration_date |-> now, total_appointments |-> 0,
         last_appointment |-> NoValue])

update_user_stats(ud, u, appointment_date) ==
    IF u \in DOMAIN ud
    THEN [ud EXCEPT ![u].total_appointments = @ + 1,
                    ![u].last_appointment = Some(appointment_date)]
    ELSE ud

NL == W("\n")

format_user_for_calendar(u) ==
    IF u \notin DOMAIN users_data
    THEN <<W("User"), W("ID:"), N(u)>>
    ELSE LET d == users_data[u]
         IN  <<W("INFORMAZIONI"), W("CLIENTE"), NL, W("Cliente:")>> \o d.nome \o d.cognome
             \o <<NL, W("Email:")>> \o d.email
             \o <<NL, W("Telefono:")>> \o d.telefono
             \o <<NL, W("Indirizzo:")>> \o d.via \o <<W(",")>> \o d.citta
             \o <<NL, W("Appuntamenti"), W("totali:"), N(d.total_appointments)>>
             \o <<NL, W("Ultimo"), W("appuntamento:")>>
             \o (IF d.last_appointment = NoValue
                 THEN <<W("Primo"), W("appuntamento")>>
                 ELSE <<N(d.last_appointment[1])>>)
             \o <<NL, W("Cliente"), W("dal:"), N(DayOf(d.registration_date)), NL>>

-----------------------------------------------------------------------------
(* CalendarManager: check_availability and create_appointment *)

UtcOffset == 60
astimezone_utc(t) == t - UtcOffset

user_tag(u) == <<W("[USER_ID:" \o ToString(u) \o "]")>>

\* the events the backend holds: the bodies of the requests it received
calendar == [i \in 1..Len(insert_calls) |-> insert_calls[i].body]

\* events().list(timeMin, timeMax): the events that overlap the window
EventsIn(cal, time_min, time_max) ==
    SelectSeq(cal, LAMBDA e : e.end > time_min /\ e.start < time_max)

\* the result of check_availability; api is the outcome of the list call
check_availability(start_time, end_time, user_id, api) ==
    IF service = "none"
    THEN [is_free |-> FALSE, conflicts |-> <<>>, outcome |-> "no_service"]
    ELSE IF api = "error"
    THEN [is_free |-> TRUE, conflicts |-> <<>>, outcome |-> "error"]
    ELSE LET events == EventsIn(calendar, astimezone_utc(start_time), astimezone_utc(end_time))
             relevant_events ==
                 IF user_id # 0
                 THEN SelectSeq(events, LAMBDA e : SeqIn(user_tag(user_id), e.description))
                 ELSE events
         IN  [is_free |-> Len(relevant_events) = 0, conflicts |-> relevant_events,
              outcome |-> "listed"]

\* re.search(r"Cliente: ([^\n]+)", description): the words after the first
\* "Cliente:" up to the end of its line
RECURSIVE LineFrom(_, _)
LineFrom(text, i) ==
    IF i > Len(text) \/ text[i] = NL THEN <<>> ELSE <<text[i]>> \o LineFrom(text, i + 1)

ClientName(description) ==
    LET IsCue(tok) == tok = W("Cliente:")
        i == FirstIndex(description, IsCue)
    IN  IF i = 0 THEN <<>> ELSE LineFrom(description, i + 1)

\* the event create_appointment builds and inserts
NewEvent(title, start_time, end_time, description, user_id) ==
    LET client_name == ClientName(description)
        enhanced_description ==
            IF user_id # 0 THEN user_tag(user_id) \o description ELSE description
        enhanced_title ==
            IF user_id # 0 /\ client_name # <<>>
            THEN title \o <<W("-")>> \o client_name
            ELSE title
    IN  [summary |-> enhanced_title, description |-> enhanced_description,
         start |-> astimezone_utc(start_time), end |-> astimezone_utc(end_time)]

\* create_appointment: the event returned (None when the service is missing or a
\* backend call fails) and the insert request sent, if the code got that far;
\* api is the outcome of the backend calls
create_appointment(title, start_time, end_time, description, user_id, api) ==
    LET body == NewEvent(title, start_time, end_time, description, user_id)
    IN  IF service = "none" \/ api = "error"
        THEN [event |-> NoValue, request |-> NoValue]
        ELSE [event |-> Some(body), request |-> Some(body)]

-----------------------------------------------------------------------------
(* The texts and button tokens the users send. *)

TxtSi == <<W("Sì")>>
TxtNo == <<W("no")>>
TxtForse == <<W("forse")>>
TxtPrenota == <<W("voglio"), W("prenotare"), W("domani"), W("alle"), N(15)>>
TxtVisita == <<W("Visita"), W("medica")>>
TxtOggi9 == <<W("oggi"), W("alle"), HM(9, 0)>>
TxtDomani15 == <<W("domani"), W("alle"), HM(15, 0)>>
TxtMercoledi == <<W("mercoledì"), W("prossimo"), W("alle"), HM(15, 0)>>
TxtVenerdi == <<W("venerdì"), W("prossimo"), W("alle"), HM(16, 0)>>
TxtMario == <<W("mi"), W("chiamo"), W("mario")>>
TxtRossi == <<W("rossi")>>
TxtEmail == <<W("Mario@Example.com")>>
TxtPhone == <<W("+39"), N(123)>>
TxtVia == <<W("via"), W("roma"), N(1)>>
TxtCitta == <<W("milano")>>
TxtPrenotaOggi == <<W("prenota"), W("oggi")>>

\* what a user may say with no dialogue open
IdleTexts == {TxtPrenota, TxtVisita, TxtForse, TxtSi}

\* what a user may say whatever dialogue is open
AnyTexts == IdleTexts \cup {TxtSi, TxtNo, TxtDomani15, TxtMario}

\* booking_intent = self.detect_booking_intent(text), tabulated over the texts
booking_intent == [text \in AnyTexts \cup {TxtPrenotaOggi} |-> detect_booking_intent(text)]

\* what a user may say at each step of a booking
BookingTexts(step) ==
    CASE step = "waiting_datetime" -> {TxtDomani15, TxtForse}
      [] step = "waiting_title" -> {TxtVisita}
      [] OTHER -> {TxtSi, TxtNo, TxtForse}

\* what a user may type at each step of a registration
RegistrationTexts(step) ==
    CASE step = "waiting_nome" -> {TxtMario}
      [] step = "waiting_cognome" -> {TxtRossi}
      [] step = "waiting_email" -> {TxtEmail, TxtForse}
      [] step = "waiting_telefono" -> {TxtPhone}
      [] step = "waiting_via" -> {TxtVia}
      [] OTHER -> {TxtCitta}

\* the outcomes of the name-extraction call: it raises, it finds no name, or it
\* answers with the last word of the sentence
AiOutcomes(text) ==
    {[raised |-> TRUE, content |-> <<>>],
     [raised |-> FALSE, content |-> <<W("NESSUN_NOME")>>],
     [raised |-> FALSE, content |-> <<text[Len(text)]>>]}

\* the quick-time buttons of the keyboard (callback data "time_<phrase>")
TimeSlots == {TxtOggi9, TxtMercoledi}

\* outcomes of the outside calls of one handler: they succeed; the first call
\* to the calendar (events().list, calendars().get) raises HttpError; or the
\* calendar calls succeed and Telegram refuses the Markdown message that
\* announces the event, whose text holds the title as the user typed it
ApiOutcomes == {"ok", "error", "send_error"}

\* the first user uses every channel, the second only types
Channels(u) == IF u = 1 THEN {"text", "voice", "callback", "command"} ELSE {"text"}

-----------------------------------------------------------------------------
(* Registration: extract_name_from_text, simple_name_extraction *)

\* words that hold a character other than a letter or an apostrophe
NonAlphaWords == {"Mario@Example.com", "mario@example.com", "mario@example", "mario.rossi",
                  "+39", "\n", ",", "-", "[USER_ID:1]", "[USER_ID:2]", "[user_id:1]",
                  "[user_id:2]", "NESSUN_NOME"}
OneLetterWords == {"h"}

IsAlpha(tok) == tok.k = "w" /\ tok.s \notin NonAlphaWords

\* the maximal run of alphabetic words that starts at position i
RECURSIVE AlphaRun(_, _)
AlphaRun(text, i) ==
    IF i > Len(text) \/ ~IsAlpha(text[i]) THEN <<>>
    ELSE <<text[i]>> \o AlphaRun(text, i + 1)

\* 2 <= len(name) <= 30 and no digit
Reasonable(name) == name # <<>> /\ ~(Len(name) = 1 /\ name[1].s \in OneLetterWords)

\* cue\s+([a-zA-Z...\s']+) : the words after the first occurrence of the cue
AfterCue(text, cue) ==
    LET Hit(i) == i + Len(cue) <= Len(text)
                  /\ (\A j \in 1..Len(cue) : text[i + j - 1] = W(cue[j]))
                  /\ IsAlpha(text[i + Len(cue)])
    IN  IF \E i \in 1..Len(text) : Hit(i)
        THEN LET i == CHOOSE i \in 1..Len(text) : Hit(i) /\ \A j \in 1..(i - 1) : ~Hit(j)
             IN  AlphaRun(text, i + Len(cue))
        ELSE <<>>

name_cues == <<<<"mi", "chiamo">>, <<"sono">>, <<"il", "mio", "nome", "è">>, <<"mi", "chiamano">>>>

simple_name_extraction(raw) ==
    LET text == Lower(raw)
        ByCue(n) == Title(AfterCue(text, name_cues[n]))
        whole == IF Len(text) = 1 /\ IsAlpha(text[1]) THEN Title(text) ELSE <<>>
    IN  IF \E n \in 1..Len(name_cues) : Reasonable(ByCue(n))
        THEN Some(ByCue(CHOOSE n \in 1..Len(name_cues) :
                      Reasonable(ByCue(n)) /\ \A m \in 1..(n - 1) : ~Reasonable(ByCue(m))))
        ELSE IF Reasonable(whole) THEN Some(whole)
        ELSE NoValue

\* re.sub(r"[^a-zA-Z...\s']", "", extracted).strip()
Cleaned(extracted) == SelectSeq(extracted, IsAlpha)

\* ai is the outcome of the chat-completion call: it raised, or it returned content
extract_name_from_text(text, ai) ==
    IF ai.raised THEN simple_name_extraction(text)
    ELSE LET extracted == ai.content
         IN  IF extracted = <<W("NESSUN_NOME")>> \/ ~Reasonable(extracted) THEN NoValue
             ELSE IF Cleaned(extracted) # <<>> THEN Some(Cleaned(extracted)) ELSE NoValue

-----------------------------------------------------------------------------
(* TelegramBot: the registration dialogue *)

\* the last message sent, by kind: the appointment was created ("created"), it
\* could not be created ("failed"), the booking was called off at the
\* confirmation ("called_off"), cancelled by /cancella ("cancelled") or by the
\* cancel button ("undone"), the session had expired ("expired"), the user was
\* asked when ("ask_when"), the date ("no_date") or the answer to the summary
\* ("unclear") was not understood, the email was turned down
\* ("invalid_email"), the handling raised and the handler ("apology") or the
\* error handler of the Application ("temporary_error") said so; every other
\* message is one class
Message(u, kind) == [user_id |-> u, kind |-> kind]
OtherMessage == Message(0, "other")

\* a registration session as start_registration_flow creates it; a key of the
\* data dictionary that is not set yet holds None
NewRegistration(u) ==
    [step |-> "waiting_nome",
     data |-> [telegram_name |-> Some(first_name(u)), nome |-> NoValue, cognome |-> NoValue,
               email |-> NoValue, telefono |-> NoValue, via |-> NoValue, citta |-> NoValue]]

start_registration_flow(u) ==
    /\ registration_flows' = Put(registration_flows, u, NewRegistration(u))
    /\ reply' = OtherMessage
    /\ UNCHANGED <<users_data, users_file, booking_flows, insert_calls, register_calls, tasks, conversation_history>>

\* the field is written and the step is left as it was
RegistrationStay(u, field, value, next) ==
    /\ registration_flows' = [registration_flows EXCEPT ![u].data[field] = Some(value)]
    /\ UNCHANGED <<users_data, users_file, register_calls>>

\* flow["data"][field] = value; flow["step"] = next
RegistrationStep(u, field, value, next) ==
    /\ registration_flows' =
           [registration_flows EXCEPT ![u] =
               [step |-> next, data |-> [registration_flows[u].data EXCEPT ![field] = Some(value)]]]
    /\ UNCHANGED <<users_data, users_file, register_calls>>

\* a step that rejects its input and ends the session
RegistrationDropped ==
    /\ registration_flows' = EmptyDict
    /\ UNCHANGED <<users_data, users_file, register_calls>>

\* a step that rejects its input replies and returns
RegistrationReprompt == UNCHANGED <<registration_flows, users_data, users_file, register_calls>>

handle_registration_flow(u, text, ai) ==
    LET flow == registration_flows[u]
        extracted == extract_name_from_text(text, ai)
        email == Lower(text)
        d == flow.data
        citta == Title(text)
    IN  /\ CASE flow.step = "waiting_nome" ->
                   IF extracted = NoValue THEN RegistrationReprompt
                   ELSE RegistrationStep(u, "nome", Title(extracted[1]), "waiting_cognome")
             [] flow.step = "waiting_cognome" ->
                   IF extracted = NoValue THEN RegistrationReprompt
                   ELSE RegistrationStep(u, "cognome", Title(extracted[1]), "waiting_email")
             [] flow.step = "waiting_email" ->
                   IF ~CharIn("@", email) \/ ~CharIn(".", email) THEN RegistrationReprompt
                   ELSE RegistrationStep(u, "email", email, "waiting_telefono")
             [] flow.step = "waiting_telefono" ->
                   RegistrationStep(u, "telefono", text, "waiting_via")
             [] flow.step = "waiting_via" ->
                   RegistrationStep(u, "via", Title(text), "waiting_citta")
             [] flow.step = "waiting_citta" ->
                   /\ users_data' = register_user(u, d.telegram_name[1], d.nome[1], d.cognome[1],
                                                  d.email[1], d.telefono[1], d.via[1], citta)
                   /\ users_file' = users_data'
                   /\ register_calls' = Append(register_calls,
                          [user_id |-> u, telegram_name |-> d.telegram_name[1],
                           nome |-> d.nome[1], cognome |-> d.cognome[1], email |-> d.email[1],
                           telefono |-> d.telefono[1], via |-> d.via[1], citta |-> citta])
                   /\ registration_flows' = Del(registration_flows, u)
             [] OTHER -> RegistrationReprompt
        /\ reply' = IF flow.step = "waiting_email" /\ (~CharIn("@", email) \/ ~CharIn(".", email))
                    THEN Message(u, "invalid_email") ELSE OtherMessage
        /\ UNCHANGED <<booking_flows, insert_calls, tasks, conversation_history>>

-----------------------------------------------------------------------------
(* TelegramBot: the booking dialogue *)

\* a slot half as long as the source's
HalfAppointment == 60 \div 2

\* timedelta(hours=1)
AppointmentMinutes == 60

\* a booking session; a key of the data dictionary that is not set holds None.
\* inserts is history: the insert requests sent on behalf of this session
NewBooking(step, datetime, original_text) ==
    [step |-> step, inserts |-> 0,
     data |-> [datetime |-> datetime, original_text |-> original_text,
               title |-> NoValue, end_time |-> NoValue]]

\* a handler that replies and changes nothing
Reply ==
    /\ reply' = OtherMessage
    /\ UNCHANGED <<users_data, users_file, registration_flows, booking_flows, insert_calls, register_calls,
                   tasks, conversation_history>>

\* self.max_history_length
max_history_length == 10

get_user_history(u) == IF u \in DOMAIN conversation_history THEN conversation_history[u] ELSE <<>>

\* a history that is never cut
history_uncut(h, u, role, content) ==
    Put(h, u, Append(IF u \in DOMAIN h THEN h[u] ELSE <<>>,
                     [role |-> role, content |-> content]))

\* add_to_history: the entry is appended and the list is cut to its last
\* max_history_length entries
add_to_history(h, u, role, content) ==
    LET appended == Append(IF u \in DOMAIN h THEN h[u] ELSE <<>>,
                           [role |-> role, content |-> content])
        n == Len(appended)
    IN  Put(h, u, IF n > max_history_length
                  THEN SubSeq(appended, n - max_history_length + 1, n)
                  ELSE appended)

\* a clearing that forgets every conversation
history_wiped(h, u) == EmptyDict

clear_user_history(h, u) == Del(h, u)

\* the chat completion raised
CompletionRaised == [raised |-> TRUE, content |-> <<>>]

\* generate_response: the history after the call; the exchange is recorded
\* when the completion returns, with a stock sentence for an empty answer
generate_response(u, text, ai) ==
    LET response_text ==
            IF ai.content # <<>> THEN ai.content
            ELSE <<W("Mi"), W("dispiace,"), W("non"), W("sono"), W("riuscito"), W("a"),
                   W("generare"), W("una"), W("risposta.")>>
    IN  IF ai.raised THEN conversation_history
        ELSE add_to_history(add_to_history(conversation_history, u, "user", text),
                            u, "assistant", response_text)

\* the answer of the assistant to a text that belongs to no dialogue
process_and_respond(u, text, ai) ==
    /\ conversation_history' = generate_response(u, text, ai)
    /\ reply' = OtherMessage
    /\ UNCHANGED <<users_data, users_file, registration_flows, booking_flows, insert_calls,
                   register_calls, tasks>>

\* a handler that only writes booking_flows
BookingOnly(flows) ==
    /\ booking_flows' = flows
    /\ reply' = OtherMessage
    /\ UNCHANGED <<users_data, users_file, registration_flows, insert_calls, register_calls, tasks, conversation_history>>

\* an inferred start that never resolves the date of the sentence
start_without_date(u, text) ==
    BookingOnly(Put(booking_flows, u, NewBooking("waiting_datetime", NoValue, NoValue)))

start_booking_flow(u, text) ==
    LET parsed_datetime == parse_datetime_natural(text, now)
    IN  BookingOnly(IF parsed_datetime # NoValue
                    THEN Put(booking_flows, u,
                             NewBooking("waiting_title", parsed_datetime, Some(text)))
                    ELSE Put(booking_flows, u, NewBooking("waiting_datetime", NoValue, NoValue)))

\* a date step that stores the date and leaves the step as it is
datetime_input_keeps_step(u, text) ==
    LET parsed_datetime == parse_datetime_natural(text, now)
    IN  BookingOnly(IF parsed_datetime # NoValue /\ ~(parsed_datetime[1] < now)
                    THEN [booking_flows EXCEPT ![u].data.datetime = parsed_datetime]
                    ELSE booking_flows)

\* a date step that takes a date of the past
datetime_input_takes_past(u, text) ==
    LET parsed_datetime == parse_datetime_natural(text, now)
    IN  BookingOnly(IF parsed_datetime # NoValue
                    THEN [booking_flows EXCEPT ![u].data.datetime = parsed_datetime,
                                               ![u].step = "waiting_title"]
                    ELSE booking_flows)

\* a date that cannot be read and a date of the past leave the session alone;
\* the first is answered "Non sono riuscito a capire la data"
_handle_datetime_input(u, text) ==
    LET parsed_datetime == parse_datetime_natural(text, now)
    IN  /\ booking_flows' =
               IF parsed_datetime # NoValue /\ ~(parsed_datetime[1] < now)
               THEN [booking_flows EXCEPT ![u].data.datetime = parsed_datetime,
                                          ![u].step = "waiting_title"]
               ELSE booking_flows
        /\ reply' = IF parsed_datetime = NoValue THEN Message(u, "no_date") ELSE OtherMessage
        /\ UNCHANGED <<users_data, users_file, registration_flows, insert_calls, register_calls, tasks, conversation_history>>

\* a title step that heeds the availability check
title_input_heeds_check(u, text, api) ==
    LET start_time == booking_flows[u].data.datetime[1]
        end_time == start_time + AppointmentMinutes
        check == check_availability(start_time, end_time, u, api)
    IN  BookingOnly(IF check.is_free
                    THEN [booking_flows EXCEPT ![u].data.title = Some(text),
                                               ![u].data.end_time = Some(end_time),
                                               ![u].step = "waiting_confirmation"]
                    ELSE [booking_flows EXCEPT ![u].data.title = Some(text),
                                               ![u].data.end_time = Some(end_time)])

\* the conflict branch is `if False:`, so the result of the check is only logged
_handle_title_input(u, text, api) ==
    LET start_time == booking_flows[u].data.datetime[1]
        end_time == start_time + AppointmentMinutes
        check == check_availability(start_time, end_time, u, api)
    IN  /\ booking_flows' = [booking_flows EXCEPT ![u].data.title = Some(text),
                                                  ![u].data.end_time = Some(end_time),
                                                  ![u].step = "waiting_confirmation"]
        /\ reply' = OtherMessage
        /\ UNCHANGED <<users_data, users_file, registration_flows, insert_calls, register_calls, tasks, conversation_history>>

affirmations == {<<W("sì")>>, <<W("si")>>, <<W("yes")>>, <<W("ok")>>, <<W("conferma")>>,
                 <<W("confermo")>>}
negations == {<<W("no")>>, <<W("annulla")>>, <<W("cancel")>>}

\* the call of create_appointment both confirmation paths make
CommitCall(u, flow, api) ==
    create_appointment(flow.data.title[1], flow.data.datetime[1], flow.data.end_time[1],
                       <<W("Appuntamento"), W("prenotato"), W("tramite"), W("bot"),
                         W("Telegram"), NL, NL>> \o format_user_for_calendar(u),
                       u, api)

\* the backend records the request the call sent, if it sent one
Backend(u, result) ==
    IF result.request # NoValue
    THEN Append(insert_calls, [user_id |-> u, body |-> result.request[1]])
    ELSE insert_calls

\* a confirmation step that takes every text for a refusal
confirmation_input_refuses(u, text, api) ==
    /\ booking_flows' = Del(booking_flows, u)
    /\ reply' = Message(u, "called_off")
    /\ UNCHANGED <<users_data, users_file, registration_flows, insert_calls, register_calls, tasks, conversation_history>>

\* confirmed by text: the session is deleted whatever the call returned;
\* send_text_and_voice sends the announcement again as plain text when the
\* Markdown one is refused
_handle_confirmation_input(u, text, api) ==
    LET flow == booking_flows[u]
        text_lower == Lower(text)
        result == CommitCall(u, flow, api)
    IN  /\ IF text_lower \in affirmations
           THEN /\ booking_flows' = Del(booking_flows, u)
                /\ reply' = Message(u, IF result.event # NoValue THEN "created" ELSE "failed")
                /\ insert_calls' = Backend(u, result)
           ELSE IF text_lower \in negations
           THEN /\ booking_flows' = Del(booking_flows, u)
                /\ reply' = Message(u, "called_off")
                /\ UNCHANGED insert_calls
           ELSE /\ reply' = Message(u, "unclear")
                /\ UNCHANGED <<booking_flows, insert_calls>>
        /\ UNCHANGED <<users_data, users_file, registration_flows, register_calls, tasks, conversation_history>>

handle_booking_flow(u, text, api) ==
    CASE booking_flows[u].step = "waiting_datetime" -> _handle_datetime_input(u, text)
      [] booking_flows[u].step = "waiting_title" -> _handle_title_input(u, text, api)
      [] booking_flows[u].step = "waiting_confirmation" -> _handle_confirmation_input(u, text, api)
      [] OTHER -> Reply

\* confirmed by button: query.edit_message_text(message, parse_mode='Markdown')
\* stands inside the try block, so when it raises the handler skips the
\* statistics and shows the message of the except branch
_process_booking_confirmation(u, api) ==
    LET flow == booking_flows[u]
        result == CommitCall(u, flow, api)
        announced == result.event # NoValue /\ api # "send_error"
    IN  /\ booking_flows' = Del(booking_flows, u)
        /\ UNCHANGED <<registration_flows, register_calls, tasks, conversation_history>>
        /\ reply' = Message(u, IF announced THEN "created" ELSE "failed")
        /\ users_data' = IF announced
                         THEN update_user_stats(users_data, u, flow.data.datetime[1])
                         ELSE users_data
        /\ users_file' = IF announced /\ u \in DOMAIN users_data THEN users_data' ELSE users_file
        /\ insert_calls' = Backend(u, result)

\* "Sessione di prenotazione scaduta. Riprova con /prenota"
SessionExpired(u) ==
    /\ reply' = Message(u, "expired")
    /\ UNCHANGED <<users_data, users_file, registration_flows, booking_flows, insert_calls, register_calls,
                   tasks, conversation_history>>

\* a confirm button that ends a session it cannot confirm
confirmation_callback_drops(u, action, api) ==
    IF u \notin DOMAIN booking_flows THEN SessionExpired(u)
    ELSE IF action = "yes" /\ booking_flows[u].step = "waiting_confirmation"
    THEN _process_booking_confirmation(u, api)
    ELSE /\ booking_flows' = Del(booking_flows, u)
         /\ reply' = Message(u, "called_off")
         /\ UNCHANGED <<users_data, users_file, registration_flows, insert_calls,
                        register_calls, tasks, conversation_history>>

_handle_confirmation_callback(u, action, api) ==
    IF u \notin DOMAIN booking_flows THEN SessionExpired(u)
    ELSE IF action = "yes"
    THEN IF booking_flows[u].step = "waiting_confirmation"
         THEN _process_booking_confirmation(u, api)
         ELSE UNCHANGED <<users_data, users_file, registration_flows, booking_flows, insert_calls,
                          register_calls, tasks, reply, conversation_history>>
    ELSE /\ booking_flows' = Del(booking_flows, u)
         /\ reply' = Message(u, "called_off")
         /\ UNCHANGED <<users_data, users_file, registration_flows, insert_calls, register_calls, tasks, conversation_history>>

\* a time button that opens a session for whoever presses it
time_selection_opens(u, time_slot) ==
    BookingOnly(Put(booking_flows, u, NewBooking("waiting_datetime", NoValue, NoValue)))

_handle_time_selection_callback(u, time_slot) ==
    IF u \notin DOMAIN booking_flows THEN SessionExpired(u)
    ELSE _handle_datetime_input(u, time_slot)

\* a cancel button that answers and deletes nothing
cancel_without_delete(u) ==
    /\ reply' = Message(u, "undone")
    /\ UNCHANGED <<users_data, users_file, registration_flows, booking_flows, insert_calls, register_calls,
                   tasks, conversation_history>>

\* "Operazione annullata", with or without a session to delete
_handle_cancel_callback(u) ==
    /\ booking_flows' = Del(booking_flows, u)
    /\ reply' = Message(u, "undone")
    /\ UNCHANGED <<users_data, users_file, registration_flows, insert_calls, register_calls, tasks, conversation_history>>

\* an explicit start that leaves an open session as it is
quick_booking_keeps(u) ==
    /\ booking_flows' = IF u \in DOMAIN booking_flows THEN booking_flows
                        ELSE Put(booking_flows, u, NewBooking("waiting_datetime", NoValue, NoValue))
    /\ reply' = Message(u, "ask_when")
    /\ UNCHANGED <<users_data, users_file, registration_flows, insert_calls, register_calls, tasks, conversation_history>>

\* also the body of prenota_command: the session is written over whatever the
\* user had, and the user is asked when
_handle_quick_booking_callback(u) ==
    /\ booking_flows' = Put(booking_flows, u, NewBooking("waiting_datetime", NoValue, NoValue))
    /\ reply' = Message(u, "ask_when")
    /\ UNCHANGED <<users_data, users_file, registration_flows, insert_calls, register_calls, tasks, conversation_history>>

_handle_cancel_registration_callback(u) ==
    /\ registration_flows' = Del(registration_flows, u)
    /\ reply' = OtherMessage
    /\ UNCHANGED <<users_data, users_file, booking_flows, insert_calls, register_calls, tasks, conversation_history>>

\* str.startswith on the callback tokens of the keyboards
StartsWith(data, prefix) ==
    CASE prefix = "confirm_" -> data \in {"confirm_yes", "confirm_no"}
      [] prefix = "time_" -> data = "time_"
      [] prefix = "cancel_" -> data \in {"cancel_booking", "cancel_registration"}
      [] OTHER -> FALSE

\* a dispatch that reads both confirmation buttons as the first
FirstAction(data) == "yes"

\* callback_data.split("_")[1]
ActionOf(data) == IF data = "confirm_yes" THEN "yes" ELSE "no"

\* the dispatch of handle_inline_callback, in the order of the source; the
\* tokens that only show a page change nothing
handle_inline_callback(u, data, time_slot, api) ==
    IF StartsWith(data, "confirm_") THEN _handle_confirmation_callback(u, ActionOf(data), api)
    ELSE IF StartsWith(data, "time_") THEN _handle_time_selection_callback(u, time_slot)
    ELSE IF StartsWith(data, "cancel_") THEN _handle_cancel_callback(u)
    ELSE IF data = "start_registration" THEN start_registration_flow(u)
    ELSE IF data = "quick_booking" THEN _handle_quick_booking_callback(u)
    ELSE IF data = "cancel_registration" THEN _handle_cancel_registration_callback(u)
    ELSE Reply

-----------------------------------------------------------------------------
(* TelegramBot: the handlers registered in setup_handlers *)

handle_text_message(u, text, ai, api) ==
    IF u \in DOMAIN registration_flows THEN handle_registration_flow(u, text, ai)
    ELSE IF ~is_user_registered(u) THEN start_registration_flow(u)
    ELSE IF u \in DOMAIN booking_flows THEN handle_booking_flow(u, text, api)
    ELSE IF booking_intent[text] THEN start_booking_flow(u, text)
    ELSE process_and_respond(u, text, ai)

\* text is the transcription; an empty transcription ends the handler
handle_voice_message(u, text, ai, api) ==
    IF text = <<>> THEN Reply
    ELSE IF u \in DOMAIN booking_flows THEN handle_booking_flow(u, text, api)
    ELSE IF booking_intent[text] THEN start_booking_flow(u, text)
    ELSE process_and_respond(u, text, ai)

cancella_command(u) ==
    IF u \in DOMAIN booking_flows
    THEN /\ booking_flows' = Del(booking_flows, u)
         /\ reply' = Message(u, "cancelled")
         /\ UNCHANGED <<users_data, users_file, registration_flows, insert_calls, register_calls, tasks, conversation_history>>
    ELSE Reply

profilo_command(u) == IF ~is_user_registered(u) THEN start_registration_flow(u) ELSE Reply

-----------------------------------------------------------------------------
(* The environment: the updates the users send. *)

StartClock == MinutesPerDay + 10 * 60         \* Tuesday 2024-01-02 10:00

\* an affirmative input is offered while the history of inserts has room
Offered(texts) ==
    IF Len(insert_calls) < MaxInserts THEN texts
    ELSE {t \in texts : Lower(t) \notin affirmations}

\* the last registration input is offered while the history of saves has room
RegistrationInputs(u) ==
    IF registration_flows[u].step = "waiting_citta" /\ ~(Len(register_calls) < MaxRegisters)
    THEN {}
    ELSE RegistrationTexts(registration_flows[u].step)

\* a user who is not registered may type anything: the texts of a booking too
TextInputs(u) ==
    IF u \in DOMAIN registration_flows THEN RegistrationInputs(u)
    ELSE IF ~is_user_registered(u) THEN AnyTexts
    ELSE IF u \in DOMAIN booking_flows THEN Offered(BookingTexts(booking_flows[u].step))
    ELSE IdleTexts

VoiceInputs(u) ==
    IF u \in DOMAIN booking_flows THEN Offered(BookingTexts(booking_flows[u].step))
    ELSE {<<>>} \cup IdleTexts

\* the outcomes that matter to the handler of a text of user u
AiChoices(u, text) ==
    IF u \in DOMAIN registration_flows
       /\ registration_flows[u].step \in {"waiting_nome", "waiting_cognome"}
    THEN AiOutcomes(text)
    ELSE {[raised |-> TRUE, content |-> <<>>]}

ApiChoices(u) ==
    IF u \notin DOMAIN booking_flows THEN {"ok"}
    ELSE IF booking_flows[u].step \in {"waiting_title", "waiting_confirmation"}
    THEN ApiOutcomes
    ELSE {"ok"}

CallbackTokens == {"confirm_yes", "confirm_no", "time_", "cancel_booking",
                   "cancel_registration", "start_registration", "quick_booking", "show_help"}

TextMessage(u) ==
    /\ "text" \in Channels(u)
    /\ \E text \in TextInputs(u) :
           \E ai \in AiChoices(u, text), api \in ApiChoices(u) :
               /\ handle_text_message(u, text, ai, api)
               /\ UNCHANGED <<now, service, returned>>

VoiceMessage(u) ==
    /\ "voice" \in Channels(u)
    /\ \E text \in VoiceInputs(u), api \in ApiChoices(u) :
           /\ handle_voice_message(u, text, CompletionRaised, api)
           /\ UNCHANGED <<now, service, returned>>

CallbackQuery(u) ==
    /\ "callback" \in Channels(u)
    /\ \E data \in CallbackTokens :
           \E time_slot \in (IF data = "time_" THEN TimeSlots ELSE {<<>>}),
              api \in (IF data = "confirm_yes" THEN ApiChoices(u) ELSE {"ok"}) :
               /\ data = "confirm_yes" => Len(insert_calls) < MaxInserts
               /\ handle_inline_callback(u, data, time_slot, api)
               /\ UNCHANGED <<now, service, returned>>

Command(u) ==
    /\ "command" \in Channels(u)
    /\ \E name \in {"prenota", "cancella", "profilo"} :
           /\ CASE name = "prenota" -> _handle_quick_booking_callback(u)
                [] name = "cancella" -> cancella_command(u)
                [] OTHER -> profilo_command(u)
           /\ UNCHANGED <<now, service, returned>>

\* load_users_data: the profiles of the data file; the second user registered
\* in an earlier run and gave the owner tag of the first as the telephone,
\* which the telephone step stores as typed
StoredUsers ==
    Put(EmptyDict, 2,
        [telegram_name |-> first_name(2), nome |-> <<W("Anna")>>, cognome |-> <<W("Bianchi")>>,
         email |-> <<W("anna@example.com")>>, telefono |-> user_tag(1),
         via |-> <<W("Via"), W("Verdi"), N(2)>>, citta |-> <<W("Roma")>>,
         registration_date |-> 0, total_appointments |-> 0, last_appointment |-> NoValue])

\* no call of the resolver or of the detector has returned yet
NoCall == [op |-> "none", text |-> <<>>, result |-> NoValue]

Init ==
    /\ now = StartClock
    /\ service \in {"ok", "none"}
    /\ users_data = StoredUsers
    /\ registration_flows = EmptyDict
    /\ booking_flows = EmptyDict
    /\ insert_calls = <<>>
    /\ register_calls = <<>>
    /\ tasks = <<>>
    /\ reply = OtherMessage
    /\ users_file = users_data
    /\ conversation_history = EmptyDict
    /\ returned = NoCall

Next ==
    \/ \E u \in Users : TextMessage(u)
    \/ \E u \in Users : VoiceMessage(u)
    \/ \E u \in Users : CallbackQuery(u)
    \/ \E u \in Users : Command(u)

Spec == Init /\ [][Next]_vars

-----------------------------------------------------------------------------
(* Confirmation handlers that interleave: a handler runs from one await to the  *)
(* next without interruption, and another handler may run while it is           *)
(* suspended.  create_appointment is a blocking call; the awaits that send the  *)
(* replies come after it and before the session is deleted.                     *)

\* the handler up to its first await after create_appointment
BeginConfirmation(u) ==
    /\ Len(tasks) < MaxTasks
    /\ Len(insert_calls) < MaxRaceInserts
    /\ u \in DOMAIN booking_flows
    /\ booking_flows[u].step = "waiting_confirmation"
    /\ \E path \in {"button", "text"}, api \in ApiOutcomes :
           LET flow == booking_flows[u]
               result == CommitCall(u, flow, api)
               announced == /\ result.event # NoValue
                            /\ path = "button" => api # "send_error"
           IN  /\ path = "button" => "callback" \in Channels(u)
               /\ path = "text" => /\ u \notin DOMAIN registration_flows
                                   /\ is_user_registered(u)
               /\ insert_calls' = Backend(u, result)
               /\ booking_flows' =
                      [booking_flows EXCEPT ![u].inserts =
                          IF result.request # NoValue THEN @ + 1 ELSE @]
               /\ reply' = Message(u, IF announced THEN "created" ELSE "failed")
               /\ tasks' = Append(tasks, [user_id |-> u, path |-> path,
                                          created |-> announced,
                                          datetime |-> flow.data.datetime[1]])
               /\ UNCHANGED <<now, service, returned, users_data, users_file,
                             registration_flows, register_calls, conversation_history>>

\* the rest of the handler: update_user_stats on the button path, then the
\* deletion of whatever session the user has by then
FinishConfirmation(i) ==
    LET t == tasks[i]
    IN  /\ users_data' = IF t.path = "button" /\ t.created
                         THEN update_user_stats(users_data, t.user_id, t.datetime)
                         ELSE users_data
        /\ booking_flows' = Del(booking_flows, t.user_id)
        /\ tasks' = SubSeq(tasks, 1, i - 1) \o SubSeq(tasks, i + 1, Len(tasks))
        /\ users_file' = IF t.path = "button" /\ t.created /\ t.user_id \in DOMAIN users_data
                        THEN users_data' ELSE users_file
        /\ UNCHANGED <<now, service, returned, registration_flows, insert_calls,
                      register_calls, reply, conversation_history>>

\* the interleavings are explored for the updates of one user
Racers == {1}

NextRace ==
    \/ \E u \in Racers : TextMessage(u)
    \/ \E u \in Racers : VoiceMessage(u)
    \/ \E u \in Racers : CallbackQuery(u)
    \/ \E u \in Racers : Command(u)
    \/ \E u \in Racers : BeginConfirmation(u)
    \/ \E i \in 1..Len(tasks) : FinishConfirmation(i)

SpecRace == Init /\ [][NextRace]_vars

-----------------------------------------------------------------------------
(* The whole time keyboard: the runs of one user who may also press the       *)
(* button "Ven 16:00", so that a session can change its date at any step.     *)

FridayButton(u) ==
    /\ "callback" \in Channels(u)
    /\ handle_inline_callback(u, "time_", TxtVenerdi, "ok")
    /\ UNCHANGED <<now, service, returned>>

NextSlots ==
    \/ \E u \in Racers : TextMessage(u)
    \/ \E u \in Racers : VoiceMessage(u)
    \/ \E u \in Racers : CallbackQuery(u)
    \/ \E u \in Racers : Command(u)
    \/ \E u \in Racers : FridayButton(u)

SpecSlots == Init /\ [][NextSlots]_vars

-----------------------------------------------------------------------------
(* Properties of the booking commit. *)

\* the step is the handling of an affirmative input (the text "Sì", typed or
\* spoken, or the button confirm_yes) by the session of user u at the
\* confirmation step, with backend outcome api
Affirmed(u, api) ==
    /\ u \in DOMAIN booking_flows
    /\ booking_flows[u].step = "waiting_confirmation"
    /\ \/ handle_booking_flow(u, TxtSi, api)
       \/ handle_inline_callback(u, "confirm_yes", <<>>, api)
    /\ UNCHANGED <<now, service, returned>>

\* the step sends exactly one insert request, for the session of user u
OneInsertFor(u) ==
    /\ Len(insert_calls') = Len(insert_calls) + 1
    /\ SubSeq(insert_calls', 1, Len(insert_calls)) = insert_calls
    /\ insert_calls'[Len(insert_calls')].user_id = u

\* the backend can be asked to insert: the service was set up and the
\* calendars().get call that precedes the insert succeeds
Insertable(api) == service = "ok" /\ api # "error"

\* C1 as stated: in a serial run an affirmative input to a session at the
\* confirmation step always causes exactly one insert request, whose end is
\* its start plus 60 minutes, and the session is gone afterwards.
C1_ExactlyOneInsert ==
    [][\A u \in Users : \A api \in ApiOutcomes :
          Affirmed(u, api) =>
              /\ OneInsertFor(u)
              /\ insert_calls'[Len(insert_calls')].body.end =
                     insert_calls'[Len(insert_calls')].body.start + 60
              /\ u \notin DOMAIN booking_flows']_vars

\* C1: in a serial run (a) an affirmative input to a session at the
\* confirmation step sends exactly one insert request when the backend can be
\* asked to insert, and none otherwise, and destroys the session either way;
\* (b) every insert request comes from a session at the confirmation step,
\* starts at the session's datetime, ends 60 minutes later, and leaves its user
\* without a session, so no later update can send a second one for it.
C1_OneInsertPerSession ==
    [][/\ \A u \in Users : \A api \in ApiOutcomes :
              Affirmed(u, api) =>
                  /\ IF Insertable(api) THEN OneInsertFor(u) ELSE insert_calls' = insert_calls
                  /\ u \notin DOMAIN booking_flows'
       /\ insert_calls' # insert_calls =>
              \E u \in Users :
                  LET call == insert_calls'[Len(insert_calls')]
                  IN  /\ OneInsertFor(u)
                      /\ u \in DOMAIN booking_flows
                      /\ booking_flows[u].step = "waiting_confirmation"
                      /\ call.body.start = astimezone_utc(booking_flows[u].data.datetime[1])
                      /\ call.body.end = call.body.start + 60
                      /\ u \notin DOMAIN booking_flows']_vars

\* a session was just confirmed: its request reached the backend, the user
\* was told so, and the session is gone
C1_Committed ==
    /\ Len(insert_calls) = 1
    /\ reply = Message(insert_calls[1].user_id, "created")
    /\ insert_calls[1].body.end = insert_calls[1].body.start + 60
    /\ insert_calls[1].user_id \notin DOMAIN booking_flows

-----------------------------------------------------------------------------
(* Properties of the rejection. *)

\* the step is the handling of a negative input (the text "no", typed or
\* spoken, or the button confirm_no) by the session of user u at the
\* confirmation step
Rejected(u) ==
    /\ u \in DOMAIN booking_flows
    /\ booking_flows[u].step = "waiting_confirmation"
    /\ \/ handle_booking_flow(u, TxtNo, "ok")
       \/ handle_inline_callback(u, "confirm_no", <<>>, "ok")
    /\ UNCHANGED <<now, service, returned>>

\* C2: a negative input to a session at the confirmation step destroys the
\* session and sends no insert request; and a request is only ever sent by a
\* step that starts with its user's session at the confirmation step and ends
\* with that session destroyed, so none is sent later for the rejected session.
C2_RejectionNeverInserts ==
    [][/\ \A u \in Users :
              Rejected(u) => u \notin DOMAIN booking_flows' /\ insert_calls' = insert_calls
       /\ \A u \in Users :
              (\E i \in 1..Len(insert_calls') :
                   i > Len(insert_calls) /\ insert_calls'[i].user_id = u)
              => /\ u \in DOMAIN booking_flows
                 /\ booking_flows[u].step = "waiting_confirmation"
                 /\ booking_flows[u].data.title = Some(TxtVisita)
                 /\ u \notin DOMAIN booking_flows']_vars

\* a booking was just called off at the confirmation step: the user was told
\* so, the session is gone and the backend has received nothing
C2_RejectedOnce ==
    /\ \E u \in Users : reply = Message(u, "called_off") /\ u \notin DOMAIN booking_flows
    /\ insert_calls = <<>>

-----------------------------------------------------------------------------
(* Properties of interleaved confirmations, of the two session dictionaries   *)
(* and of the availability check.                                             *)

\* C3: when confirmation handlers of one user interleave at their awaits, at
\* most one insert request is sent for a session.
C3_AtMostOneInsertInterleaved ==
    \A u \in DOMAIN booking_flows : booking_flows[u].inserts <= 1

\* C4: no user has a booking session and a registration session at once.
C4_OneSessionPerUser ==
    \A u \in Users : ~(u \in DOMAIN booking_flows /\ u \in DOMAIN registration_flows)

\* the window every booking of the model asks for: 15:00 of Wednesday
\* 2024-01-03, the day after the clock's, local time
Tomorrow15 == 2 * MinutesPerDay + 15 * 60

\* C5, where the calendar can be queried: for distinct users a and b, when
\* every event the calendar holds in the window comes from a booking of b, the
\* availability check for a answers free with no conflicts.
C5_OthersNeverConflict ==
    service = "ok" =>
        \A a \in Users : \A b \in Users \ {a} :
            LET start_time == Tomorrow15
                end_time == Tomorrow15 + 60
                inside == {i \in 1..Len(insert_calls) :
                              /\ insert_calls[i].body.end > astimezone_utc(start_time)
                              /\ insert_calls[i].body.start < astimezone_utc(end_time)}
                result == check_availability(start_time, end_time, a, "ok")
            IN  (\A i \in inside : insert_calls[i].user_id = b)
                => result.is_free /\ result.conflicts = <<>>

\* C6: whenever the calendar cannot be queried, because the service was never
\* set up or because the list call fails, the availability check answers free
\* with no conflicts.
C6_FailOpen ==
    \A u \in Users : \A api \in ApiOutcomes :
        (service = "none" \/ api = "error") =>
            LET result == check_availability(Tomorrow15, Tomorrow15 + 60, u, api)
            IN  result.is_free /\ result.conflicts = <<>>

-----------------------------------------------------------------------------
(* Properties of registration. *)

\* C7: a text message, whatever it says, from a user who has no profile and no
\* registration session opens a registration session at the name step with no
\* field filled, and leaves the booking sessions, the calendar and the profiles
\* as they were: the text reaches neither intent detection nor a booking step.
C7_UnregisteredTextStartsRegistration ==
    [][\A u \in Users : \A text \in AnyTexts : \A api \in ApiOutcomes :
          (/\ u \notin DOMAIN users_data
           /\ u \notin DOMAIN registration_flows
           /\ handle_text_message(u, text, [raised |-> TRUE, content |-> <<>>], api)
           /\ UNCHANGED <<now, service, returned>>)
          => /\ u \in DOMAIN registration_flows'
             /\ registration_flows'[u].step = "waiting_nome"
             /\ \A f \in {"nome", "cognome", "email", "telefono", "via", "citta"} :
                    registration_flows'[u].data[f] = NoValue
             /\ booking_flows' = booking_flows
             /\ insert_calls' = insert_calls
             /\ users_data' = users_data]_vars

\* a user without a profile typed at the confirmation step of a booking begun
\* by voice: the registration opened at the name step and the booking session
\* is as it was, nothing sent
C7_RegistrationOpened ==
    /\ 1 \notin DOMAIN users_data
    /\ 1 \in DOMAIN registration_flows
    /\ registration_flows[1].step = "waiting_nome"
    /\ 1 \in DOMAIN booking_flows
    /\ booking_flows[1].step = "waiting_confirmation"
    /\ insert_calls = <<>>

\* the steps of a registration in order, and the field each one collects
registration_steps ==
    <<"waiting_nome", "waiting_cognome", "waiting_email", "waiting_telefono", "waiting_via",
      "waiting_citta">>
registration_fields == <<"nome", "cognome", "email", "telefono", "via", "citta">>
StepIndex(step) == CHOOSE k \in 1..6 : registration_steps[k] = step

\* the profile a save call carries is the one the session collected
Collected(call, data) ==
    \A k \in 1..5 : call[registration_fields[k]] = data[registration_fields[k]][1]

\* C8: (a) a session at the k-th step holds exactly the first k-1 fields;
\* (b) a text handled by a session either leaves it as it is (the input was
\* not valid: a word with no @ at the email step, or a sentence in which the
\* extraction service finds no name at the name and surname steps), or fills
\* the field of its step and moves the session to the next step without a save call, or, at the city step, makes exactly one save call that
\* carries the five collected fields and the city, and ends the session;
\* (c) a save call is made by the city step only; (d) the profiles saved from
\* the typed inputs are Mario Rossi, mario@example.com, the telephone as typed,
\* Via Roma 1, Milano.
C8_SixStepsOneSave ==
    [][/\ \A u \in DOMAIN registration_flows :
              LET flow == registration_flows[u]
                  k == StepIndex(flow.step)
              IN  /\ \A j \in 1..6 : (flow.data[registration_fields[j]] # NoValue) <=> (j < k)
                  /\ \A text \in RegistrationTexts(flow.step) : \A ai \in AiOutcomes(text) :
                         (handle_text_message(u, text, ai, "ok") /\ UNCHANGED <<now, service, returned>>)
                         => \/ /\ \/ text = TxtForse
                                  \/ k <= 2 /\ ai.content = <<W("NESSUN_NOME")>>
                               /\ registration_flows' = registration_flows
                               /\ register_calls' = register_calls
                            \/ /\ k < 6
                               /\ register_calls' = register_calls
                               /\ registration_flows'[u].step = registration_steps[k + 1]
                               /\ \A j \in 1..6 :
                                      j # k => registration_flows'[u].data[registration_fields[j]]
                                               = flow.data[registration_fields[j]]
                               /\ registration_flows'[u].data[registration_fields[k]] # NoValue
                            \/ /\ k = 6
                               /\ Len(register_calls') = Len(register_calls) + 1
                               /\ u \notin DOMAIN registration_flows'
       /\ register_calls' # register_calls =>
              /\ Len(register_calls') = Len(register_calls) + 1
              /\ SubSeq(register_calls', 1, Len(register_calls)) = register_calls
              /\ LET call == register_calls'[Len(register_calls')]
                     u == call.user_id
                 IN  /\ u \in DOMAIN registration_flows
                     /\ registration_flows[u].step = "waiting_citta"
                     /\ Collected(call, registration_flows[u].data)
                     /\ u \notin DOMAIN registration_flows'
                     /\ call.nome = <<W("Mario")>> /\ call.cognome = <<W("Rossi")>>
                     /\ call.email = <<W("mario@example.com")>>
                     /\ call.telefono = TxtPhone
                     /\ call.via = <<W("Via"), W("Roma"), N(1)>>
                     /\ call.citta = <<W("Milano")>>
                     /\ \A f \in {"nome", "cognome", "email", "telefono", "via", "citta"} :
                            users_data'[u][f] = call[f]]_vars

\* the first user went through the six steps: one save call, the profile stored
C8_Registered ==
    /\ Len(register_calls) = 1
    /\ register_calls[1].user_id = 1
    /\ register_calls[1].telefono = TxtPhone
    /\ register_calls[1].citta = <<W("Milano")>>
    /\ 1 \in DOMAIN users_data
    /\ users_data[1].nome = <<W("Mario")>>
    /\ 1 \notin DOMAIN registration_flows

-----------------------------------------------------------------------------
(* Properties of a booking from the first sentence to the commit. *)

\* the user has a profile and no registration session, and types text
Typed(u, text, api) ==
    /\ u \in DOMAIN users_data
    /\ u \notin DOMAIN registration_flows
    /\ handle_text_message(u, text, [raised |-> TRUE, content |-> <<>>], api)
    /\ UNCHANGED <<now, service, returned>>

\* the session of user u is at this step, for tomorrow 15:00
BookingAt(u, step) ==
    /\ u \in DOMAIN booking_flows
    /\ booking_flows[u].step = step
    /\ booking_flows[u].data.datetime = Some(Tomorrow15)

\* the three sentences in turn: the first opens the session at the title
\* step for tomorrow 15:00, the second stores the title and the end an hour
\* later and moves to the confirmation step, the third, when the backend can
\* be asked to insert, sends one request with this title from tomorrow 15:00
\* to 16:00 and ends the session
Dialogue(u, api, title) ==
    /\ (u \notin DOMAIN booking_flows /\ Typed(u, TxtPrenota, api))
           => BookingAt(u, "waiting_title")'
    /\ (BookingAt(u, "waiting_title") /\ Typed(u, TxtVisita, api))
           => /\ BookingAt(u, "waiting_confirmation")'
              /\ booking_flows'[u].data.title = Some(TxtVisita)
              /\ booking_flows'[u].data.end_time = Some(Tomorrow15 + 60)
    /\ (/\ BookingAt(u, "waiting_confirmation")
        /\ booking_flows[u].data.title = Some(TxtVisita)
        /\ Insertable(api)
        /\ Typed(u, TxtSi, api))
           => /\ OneInsertFor(u)
              /\ LET call == insert_calls'[Len(insert_calls')]
                 IN  /\ call.body.summary = title
                     /\ call.body.start = astimezone_utc(Tomorrow15)
                     /\ call.body.end = astimezone_utc(Tomorrow15 + 60)
              /\ u \notin DOMAIN booking_flows'

\* C9 as stated, where the backend can be asked to insert: the title of the
\* inserted event is exactly "Visita medica".
C9_TitleAsTyped ==
    [][\A u \in Users : \A api \in ApiOutcomes : Dialogue(u, api, TxtVisita)]_vars

\* C9: for a registered user with no open session the three sentences create
\* the session at the title step, move it to the confirmation step and, when
\* the backend can be asked to insert, end with one insert from tomorrow 15:00
\* to tomorrow 16:00 whose title is "Visita medica - " followed by the name and
\* surname of the profile, after which the user has no booking session.
C9_TitleWithClientName ==
    [][\A u \in Users : \A api \in ApiOutcomes :
          u \in DOMAIN users_data =>
              Dialogue(u, api, TxtVisita \o <<W("-")>> \o users_data[u].nome
                                 \o users_data[u].cognome)]_vars

\* the second user, registered from the start, was just told that the
\* appointment typed as "Visita medica" for tomorrow 15:00 was created
C9_Booked ==
    /\ reply = Message(2, "created")
    /\ Len(insert_calls) = 1
    /\ insert_calls[1].user_id = 2
    /\ insert_calls[1].body.summary =
           <<W("Visita"), W("medica"), W("-"), W("Anna"), W("Bianchi")>>
    /\ insert_calls[1].body.start = astimezone_utc(Tomorrow15)
    /\ 2 \notin DOMAIN booking_flows

\* C10: the appointment counter of a user registered from the start equals the
\* number of requests the backend received for that user, and the label of the
\* last appointment is set as soon as there is one.
C10_CounterCountsCommits ==
    \A u \in DOMAIN StoredUsers :
        LET commits == {i \in 1..Len(insert_calls) : insert_calls[i].user_id = u}
        IN  /\ users_data[u].total_appointments = Cardinality(commits)
            /\ commits # {} => users_data[u].last_appointment = Some(Tomorrow15)

-----------------------------------------------------------------------------
(* Properties of a commit that fails. *)

\* the step is the handling of an affirmative input of a user who has no
\* booking session
AffirmedWithoutSession(u, api) ==
    /\ u \notin DOMAIN booking_flows
    /\ \/ \E ai \in AiChoices(u, TxtSi) : handle_text_message(u, TxtSi, ai, api)
       \/ handle_voice_message(u, TxtSi, CompletionRaised, api)
       \/ handle_inline_callback(u, "confirm_yes", <<>>, api)
    /\ UNCHANGED <<now, service, returned>>

\* C11: when create_appointment fails during the commit (the service is
\* missing or the backend raises), the affirmative input, typed or pressed,
\* destroys the session, tells the user that the creation failed and sends no
\* insert request; and an affirmative input of a user without a session sends
\* no request and opens no session, so the commit cannot be retried in place.
C11_FailedCommitEndsSession ==
    [][\A u \in Users : \A api \in ApiOutcomes :
          /\ (~Insertable(api) /\ Affirmed(u, api)) =>
                 /\ u \notin DOMAIN booking_flows'
                 /\ reply' = Message(u, "failed")
                 /\ insert_calls' = insert_calls
          /\ \/ u \notin DOMAIN booking_flows' /\ insert_calls' = insert_calls
             \/ ~AffirmedWithoutSession(u, api)]_vars

\* a commit just failed before anything was sent to the backend: the user
\* was told so and has no session left
C11_FailedAndGone ==
    \E u \in Users :
        /\ reply = Message(u, "failed")
        /\ u \notin DOMAIN booking_flows
        /\ \A i \in 1..Len(insert_calls) : insert_calls[i].user_id # u

\* C12: no partial commit: a commit step that ends with the message of a
\* failed creation has sent no insert request for its session.
C12_NoPartialCommit ==
    [][\A u \in Users : \A api \in ApiOutcomes :
          (Affirmed(u, api) /\ reply' = Message(u, "failed")) =>
              insert_calls' = insert_calls]_vars

-----------------------------------------------------------------------------
(* Properties of the explicit cancellations. *)

\* C13: pressing the button cancel_registration at any step of a registration
\* destroys the registration session of the user.
C13_CancelRegistrationEndsSession ==
    [][\A u \in Users :
          (/\ u \in DOMAIN registration_flows
           /\ handle_inline_callback(u, "cancel_registration", <<>>, "ok")
           /\ UNCHANGED <<now, service, returned>>)
          => u \notin DOMAIN registration_flows']_vars

\* the step is the handling of an explicit cancel action of user u, whose
\* booking session is open at any step: the command /cancella, the cancel
\* button of the time keyboard, or the button confirm_no
Cancelled(u) ==
    /\ u \in DOMAIN booking_flows
    /\ \/ cancella_command(u)
       \/ handle_inline_callback(u, "cancel_booking", <<>>, "ok")
       \/ handle_inline_callback(u, "confirm_no", <<>>, "ok")
    /\ UNCHANGED <<now, service, returned>>

\* C14: an explicit cancel action at any step of a booking leaves the user
\* without a booking session when the handler returns and sends no insert
\* request; and a request is only ever sent for a user whose session is open
\* at the confirmation step when the step begins, so none is sent afterwards
\* for the session that was cancelled.
C14_CancelEndsBooking ==
    [][\A u \in Users :
          /\ Cancelled(u) => u \notin DOMAIN booking_flows' /\ insert_calls' = insert_calls
          /\ u \notin DOMAIN booking_flows =>
                 \A i \in 1..Len(insert_calls') :
                     i > Len(insert_calls) => insert_calls'[i].user_id # u]_vars

\* a booking was just cancelled by /cancella: the user was told so, has no
\* session, and the backend has received nothing from them
C14_CancelledByCommand ==
    \E u \in Users :
        /\ reply = Message(u, "cancelled")
        /\ u \notin DOMAIN booking_flows
        /\ \A i \in 1..Len(insert_calls) : insert_calls[i].user_id # u

-----------------------------------------------------------------------------
(* Properties of the buttons pressed without a session. *)

\* the step is the handling of a confirmation button or of a time button
\* pressed by user u, who has no booking session
PressedWithoutSession(u) ==
    /\ u \notin DOMAIN booking_flows
    /\ \/ \E api \in ApiOutcomes : handle_inline_callback(u, "confirm_yes", <<>>, api)
       \/ handle_inline_callback(u, "confirm_no", <<>>, "ok")
       \/ \E time_slot \in TimeSlots : handle_inline_callback(u, "time_", time_slot, "ok")
    /\ UNCHANGED <<now, service, returned>>

\* C15: a confirmation button or a time button pressed by a user without a
\* booking session is answered with the message of the expired session, opens
\* no session and sends no insert request; and that message is the answer to
\* nothing else: a step that ends with it began with its user without a session.
C15_ExpiredSession ==
    [][\A u \in Users :
          /\ PressedWithoutSession(u) =>
                 /\ reply' = Message(u, "expired")
                 /\ booking_flows' = booking_flows
                 /\ insert_calls' = insert_calls
          /\ reply' = Message(u, "expired") =>
                 /\ u \notin DOMAIN booking_flows
                 /\ u \notin DOMAIN booking_flows']_vars

\* a button was just answered with the message of the expired session: its
\* user has no session and the backend has received nothing
C15_Expired ==
    \E u \in Users :
        /\ reply = Message(u, "expired")
        /\ u \notin DOMAIN booking_flows
        /\ insert_calls = <<>>

-----------------------------------------------------------------------------
(* Properties of the fields of a booking session. *)

\* Friday 2024-01-05 16:00, the date of the button "Ven 16:00"
Friday16 == 4 * MinutesPerDay + 16 * 60

\* C16: in every reachable state, a booking session at the title step or at
\* the confirmation step has its datetime set, and a session at the
\* confirmation step has its title and end_time set, with the end_time 60
\* minutes after the datetime.
C16_FieldsOfStep ==
    \A u \in DOMAIN booking_flows :
        LET flow == booking_flows[u]
        IN  /\ flow.step \in {"waiting_title", "waiting_confirmation"} =>
                   flow.data.datetime # NoValue
            /\ flow.step = "waiting_confirmation" =>
                   /\ flow.data.title # NoValue
                   /\ flow.data.end_time # NoValue
                   /\ flow.data.end_time[1] = flow.data.datetime[1] + 60

\* a session that began with the date of its first sentence (tomorrow 15:00)
\* stands at the confirmation step with the date of the button "Ven 16:00"
C16_DateChanged ==
    \E u \in DOMAIN booking_flows :
        /\ booking_flows[u].step = "waiting_confirmation"
        /\ booking_flows[u].data.original_text = Some(TxtPrenota)
        /\ booking_flows[u].data.datetime = Some(Friday16)
        /\ booking_flows[u].data.end_time = Some(Friday16 + 60)

-----------------------------------------------------------------------------
(* Properties of the start of a booking. *)

\* the step is the handling of an explicit start of user u: the command
\* /prenota or the button quick_booking
ExplicitStart(u) ==
    /\ \/ _handle_quick_booking_callback(u)
       \/ handle_inline_callback(u, "quick_booking", <<>>, "ok")
    /\ UNCHANGED <<now, service, returned>>

\* C17: an explicit start leaves the user with a booking session at the date
\* step with no field set, whatever session the user had before, and changes
\* nothing else: no date is resolved and no request is sent.
C17_ExplicitStartResets ==
    [][\A u \in Users :
          ExplicitStart(u) =>
              /\ booking_flows' =
                     Put(booking_flows, u, NewBooking("waiting_datetime", NoValue, NoValue))
              /\ booking_flows'[u].data.datetime = NoValue
              /\ UNCHANGED <<insert_calls, users_data, registration_flows>>]_vars

\* a user who has booked before was just asked when, and holds a session at
\* the date step with no field set
C17_StartedAgain ==
    \E u \in DOMAIN booking_flows :
        /\ reply = Message(u, "ask_when")
        /\ booking_flows[u] = NewBooking("waiting_datetime", NoValue, NoValue)
        /\ \E i \in 1..Len(insert_calls) : insert_calls[i].user_id = u

\* the step is the handling of the sentence text of user u by the text handler
\* (past its registration checks) or by the voice handler
Heard(u, text) ==
    /\ \/ /\ u \notin DOMAIN registration_flows
          /\ u \in DOMAIN users_data
          /\ \E ai \in AiChoices(u, text), api \in ApiChoices(u) :
                 handle_text_message(u, text, ai, api)
       \/ \E api \in ApiChoices(u) : handle_voice_message(u, text, CompletionRaised, api)
    /\ UNCHANGED <<now, service, returned>>

\* what a sentence may leave of the booking session of user u
AfterSentence(u, text) ==
    IF u \in DOMAIN booking_flows
    THEN u \in DOMAIN booking_flows' =>
             /\ booking_flows'[u].data.original_text = booking_flows[u].data.original_text
             /\ booking_flows'[u].step = "waiting_datetime" =>
                    booking_flows'[u] = booking_flows[u]
    ELSE IF ~booking_intent[text]
    THEN u \notin DOMAIN booking_flows'
    ELSE LET parsed_datetime == parse_datetime_natural(text, now)
         IN  /\ u \in DOMAIN booking_flows'
             /\ booking_flows'[u].data.title = NoValue
             /\ booking_flows'[u].data.end_time = NoValue
             /\ booking_flows'[u].data.datetime = parsed_datetime
             /\ booking_flows'[u].step =
                    IF parsed_datetime # NoValue THEN "waiting_title" ELSE "waiting_datetime"

\* C18: (a) a sentence on which the intent detector fires, from a user without
\* a booking session, opens a session at the title step with the datetime the
\* resolver returned, or at the date step with no datetime when the resolver
\* returned None; (b) a sentence on which the detector does not fire opens no
\* session, and a sentence of a user with an open session does not start the
\* session again; (c) a session only ever appears by an explicit start or by
\* such a sentence.
C18_InferredStart ==
    [][\A u \in Users :
          /\ \A text \in AnyTexts : AfterSentence(u, text) \/ ~Heard(u, text)
          /\ (u \notin DOMAIN booking_flows /\ u \in DOMAIN booking_flows') =>
                 \/ ExplicitStart(u)
                 \/ \E text \in AnyTexts : booking_intent[text] /\ Heard(u, text)]_vars

\* the first user holds a session opened by a sentence with a date, at the
\* title step with that date; the second, who only types, holds one opened by
\* a sentence without a date, at the date step with no datetime
C18_BothStarts ==
    /\ DOMAIN booking_flows = {1, 2}
    /\ booking_flows[1].step = "waiting_title"
    /\ booking_flows[1].data.original_text = Some(TxtPrenota)
    /\ booking_flows[1].data.datetime = Some(Tomorrow15)
    /\ booking_flows[2] = NewBooking("waiting_datetime", NoValue, NoValue)

-----------------------------------------------------------------------------
(* Properties of the inputs a step turns down. *)

\* the step is the handling of the date text of user u, typed, spoken or sent
\* by a time button, by a session at the date step
DateInput(u, text) ==
    /\ u \in DOMAIN booking_flows
    /\ booking_flows[u].step = "waiting_datetime"
    /\ \/ handle_booking_flow(u, text, "ok")
       \/ handle_inline_callback(u, "time_", text, "ok")
    /\ UNCHANGED <<now, service, returned>>

\* C19: at the date step, a text the resolver cannot resolve and a text that
\* resolves to a time before now both leave the session exactly as it was (same
\* step, no datetime stored, not destroyed), and every other session and the
\* backend with it.
C19_RejectedDateKeepsSession ==
    [][\A u \in Users : \A text \in AnyTexts \cup TimeSlots :
          LET parsed_datetime == parse_datetime_natural(text, now)
          IN  \/ booking_flows' = booking_flows /\ insert_calls' = insert_calls
              \/ ~DateInput(u, text)
              \/ ~(parsed_datetime = NoValue \/ parsed_datetime[1] < now)]_vars

\* a date that could not be read was just turned down: the session of its
\* user is still at the date step with no datetime
C19_AskedAgain ==
    \E u \in DOMAIN booking_flows :
        /\ reply = Message(u, "no_date")
        /\ booking_flows[u].step = "waiting_datetime"
        /\ booking_flows[u].data.datetime = NoValue

\* the step is the handling of the text of user u, typed or spoken, by a
\* session at the confirmation step
ConfirmationText(u, text) ==
    /\ u \in DOMAIN booking_flows
    /\ booking_flows[u].step = "waiting_confirmation"
    /\ \E api \in ApiOutcomes : handle_booking_flow(u, text, api)
    /\ UNCHANGED <<now, service, returned>>

\* C20: at the confirmation step, a text that is neither an affirmation nor a
\* negation leaves the session as it was (same step, datetime, title and
\* end_time), keeps it open and sends no insert request.
C20_UnclearAnswerKeepsSession ==
    [][\A u \in Users : \A text \in AnyTexts :
          \/ /\ u \in DOMAIN booking_flows'
             /\ booking_flows' = booking_flows
             /\ insert_calls' = insert_calls
          \/ Lower(text) \in {<<W("sì")>>, <<W("si")>>, <<W("yes")>>, <<W("ok")>>,
                              <<W("conferma")>>, <<W("confermo")>>, <<W("no")>>,
                              <<W("annulla")>>, <<W("cancel")>>}
          \/ ~ConfirmationText(u, text)]_vars

\* an answer to the summary was just not understood: the session of its user
\* is still at the confirmation step with its title and its hour, and the
\* backend has received nothing
C20_AskedToConfirmAgain ==
    \E u \in DOMAIN booking_flows :
        /\ reply = Message(u, "unclear")
        /\ booking_flows[u].step = "waiting_confirmation"
        /\ booking_flows[u].data.title = Some(TxtVisita)
        /\ booking_flows[u].data.end_time = Some(booking_flows[u].data.datetime[1] + 60)
        /\ insert_calls = <<>>

-----------------------------------------------------------------------------
(* Properties of the time buttons. *)

\* the step is the handling of the time button time_slot pressed by user u,
\* who has a booking session
TimePressed(u, time_slot) ==
    /\ u \in DOMAIN booking_flows
    /\ handle_inline_callback(u, "time_", time_slot, "ok")
    /\ UNCHANGED <<now, service, returned>>

\* the step is also what handle_booking_flow does with the same phrase sent
\* as a text
AsText(u, time_slot) == \E api \in ApiChoices(u) : handle_booking_flow(u, time_slot, api)

-----------------------------------------------------------------------------
(* Updates whose handling raises: a call to Telegram fails once (a timeout, a *)
(* network error).  A handler with a try block around its body answers from   *)
(* its except branch ("apology"); an exception that leaves the handler goes   *)
(* to the Application, which passes it to the registered error_handler        *)
(* ("temporary_error").                                                       *)

\* the except branch of an entry point: the error is logged and the user told
Caught(u) ==
    /\ reply' = Message(u, "apology")
    /\ UNCHANGED <<now, service, returned, users_data, users_file, registration_flows, booking_flows,
                   insert_calls, register_calls, tasks, conversation_history>>

\* "Si è verificato un errore temporaneo. Riprova tra qualche istante."
error_handler(u) == reply' = Message(u, "temporary_error")

\* the status message "Sto pensando alla risposta..." of a registered user
\* without a session cannot be sent
TextMessageRaises(u) ==
    /\ "text" \in Channels(u)
    /\ u \notin DOMAIN registration_flows
    /\ is_user_registered(u)
    /\ u \notin DOMAIN booking_flows
    /\ Caught(u)

\* the status message "Sto elaborando il tuo messaggio vocale..." cannot be sent
VoiceMessageRaises(u) ==
    /\ "voice" \in Channels(u)
    /\ Caught(u)

\* query.answer() raises
CallbackQueryRaises(u) ==
    /\ "callback" \in Channels(u)
    /\ Caught(u)

\* the message of the command cannot be sent: prenota_command, cancella_command
\* and start_command have no try block, and send_text_and_voice raises again
\* from the plain send of its except branch
CommandRaises(u) ==
    /\ "command" \in Channels(u)
    /\ \E name \in {"prenota", "cancella", "start"} :
           /\ booking_flows' =
                  CASE name = "prenota" ->
                           Put(booking_flows, u, NewBooking("waiting_datetime", NoValue, NoValue))
                    [] name = "cancella" -> Del(booking_flows, u)
                    [] OTHER -> booking_flows
           /\ error_handler(u)
           /\ UNCHANGED <<now, service, returned, users_data, users_file, registration_flows,
                          insert_calls, register_calls, tasks, conversation_history>>

\* the city step when the data file cannot be written: save_users_data logs
\* the exception of open() or json.dump() and returns, register_user returns
\* True.  open(data_file, 'w') empties the file before anything is written, so
\* the file keeps what it held (open raised) or holds no profile (dump raised)
RegistrationWriteFails(u) ==
    /\ "text" \in Channels(u)
    /\ u \in DOMAIN registration_flows
    /\ registration_flows[u].step = "waiting_citta"
    /\ Len(register_calls) < MaxRegisters
    /\ \E text \in RegistrationTexts("waiting_citta"), left \in {users_file, EmptyDict} :
           LET d == registration_flows[u].data
               citta == Title(text)
           IN  /\ users_data' = register_user(u, d.telegram_name[1], d.nome[1], d.cognome[1],
                                              d.email[1], d.telefono[1], d.via[1], citta)
               /\ users_file' = left
               /\ register_calls' = Append(register_calls,
                      [user_id |-> u, telegram_name |-> d.telegram_name[1],
                       nome |-> d.nome[1], cognome |-> d.cognome[1], email |-> d.email[1],
                       telefono |-> d.telefono[1], via |-> d.via[1], citta |-> citta])
               /\ registration_flows' = Del(registration_flows, u)
               /\ reply' = OtherMessage
               /\ UNCHANGED <<now, service, returned, booking_flows, insert_calls, tasks,
                              conversation_history>>

NextFaults ==
    \/ \E u \in Racers : TextMessage(u)
    \/ \E u \in Racers : VoiceMessage(u)
    \/ \E u \in Racers : CallbackQuery(u)
    \/ \E u \in Racers : Command(u)
    \/ \E u \in Racers : TextMessageRaises(u)
    \/ \E u \in Racers : VoiceMessageRaises(u)
    \/ \E u \in Racers : CallbackQueryRaises(u)
    \/ \E u \in Racers : CommandRaises(u)
    \/ \E u \in Racers : RegistrationWriteFails(u)

SpecFaults == Init /\ [][NextFaults]_vars

\* C22: a failure raised while an update is handled (a text, a voice message,
\* a button, a command) is caught inside the handler of the update and
\* answered from there; no exception leaves a handler, so the error handler of
\* the Application never has anything to answer.
C22_CaughtAtEntryPoint == \A u \in Users : reply # Message(u, "temporary_error")

-----------------------------------------------------------------------------
(* The resolver and the intent detector called on their own: the clock is   *)
(* any of Clocks, the text any of the corpus, and returned holds the call     *)
(* and its value.                                                             *)

\* 10:37 of the seven days from Monday 2024-01-01; 10:00 of Wednesday
\* 2024-02-28 and of Friday 2025-02-28; 23:30 of Tuesday 2024-12-31
Clocks ==
    {d * MinutesPerDay + 10 * 60 + 37 : d \in 0..6}
        \cup {58 * MinutesPerDay + 10 * 60,
              365 * MinutesPerDay + 23 * 60 + 30,
              (366 + 58) * MinutesPerDay + 10 * 60}

\* the texts handed to the resolver
ResolverTexts ==
    {<<W(giorni[g])>> : g \in 1..7}
        \cup {<<W("lunedì"), W("alle"), HM(10, 30)>>,
              <<W("lunedì"), W("domani")>>,
              <<W("venerdì"), W("lunedì")>>,
              <<W("oggi")>>, <<W("domani")>>, <<W("dopodomani")>>,
              <<W("Domani"), W("alle"), HM(15, 0)>>,
              <<W("oggi"), N(18), W("ore")>>,
              <<W("dopodomani"), W("alle"), N(8)>>,
              <<W("oggi"), W("domani")>>,
              <<W("domani"), W("oggi")>>,
              <<W("domani"), W("dopodomani")>>,
              <<W("domani"), HM(25, 0), W("alle"), N(10)>>,
              <<W("domani"), HM(15, 75)>>,
              <<W("domani"), HM(25, 0), HM(16, 30)>>,
              <<W("domani"), W("alle"), N(10), HM(16, 30)>>,
              <<W("domani"), N(7), W("ore"), W("alle"), N(10)>>,
              <<W("domani"), N(30), W("ore"), W("alle"), N(10)>>,
              <<W("domani"), W("alle"), N(25)>>,
              <<W("alle"), N(15)>>,
              <<W("qualcosa"), W("senza"), W("senso")>>,
              <<DMY(25, 12, 0)>>,
              <<DMY(25, 12, 2025), W("alle"), HM(14, 0)>>,
              <<DMY(29, 2, 0)>>,
              <<DMY(25, 12, 0), W("domani")>>,
              <<W("domani"), DMY(25, 12, 0)>>,
              <<DMY(25, 12, 0), W("lunedì")>>,
              <<DMY(31, 2, 0)>>,
              <<DMY(31, 2, 0), W("domani")>>,
              <<DMY(31, 2, 0), W("lunedì")>>,
              <<DMY(31, 2, 0), DMY(25, 12, 0)>>}

ParseCall ==
    \E text \in ResolverTexts :
        /\ returned' = [op |-> "parse_datetime_natural", text |-> text,
                        result |-> parse_datetime_natural(text, now)]
        /\ UNCHANGED <<now, service, users_data, users_file, registration_flows, booking_flows,
                       insert_calls, register_calls, tasks, reply, conversation_history>>

\* the texts handed to the intent detector
IntentTexts ==
    AnyTexts \cup {TxtOggi9,
                   <<W("domani")>>,
                   <<W("hai"), W("tempo")>>,
                   <<W("tempo")>>,
                   <<W("oggi"), W("verso"), W("sera")>>,
                   <<W("la"), W("parete")>>,
                   <<W("alle"), N(15)>>,
                   <<W("mercoledì"), W("alle"), HM(15, 0)>>,
                   <<W("qualcosa"), W("senza"), W("senso")>>}

DetectCall ==
    \E text \in IntentTexts :
        /\ returned' = [op |-> "detect_booking_intent", text |-> text,
                        result |-> detect_booking_intent(text)]
        /\ UNCHANGED <<now, service, users_data, users_file, registration_flows, booking_flows,
                       insert_calls, register_calls, tasks, reply, conversation_history>>

\* the calls are made with no session open, or with the session /prenota opens
InitResolver ==
    /\ now \in Clocks
    /\ service = "ok"
    /\ users_data = StoredUsers
    /\ registration_flows = EmptyDict
    /\ booking_flows \in {EmptyDict,
                          Put(EmptyDict, 2, NewBooking("waiting_datetime", NoValue, NoValue))}
    /\ insert_calls = <<>>
    /\ register_calls = <<>>
    /\ tasks = <<>>
    /\ reply = OtherMessage
    /\ users_file = users_data
    /\ conversation_history = EmptyDict
    /\ returned = NoCall

NextResolver ==
    \/ ParseCall
    \/ DetectCall

SpecResolver == InitResolver /\ [][NextResolver]_vars

\* the resolver has returned from a call on text
Parsed(text) == returned.op = "parse_datetime_natural" /\ returned.text = text

\* the texts of the corpus whose only date anchor is the weekday name g
WeekdayTexts(g) ==
    {<<W(giorni[g])>>} \cup (IF g = 1 THEN {<<W("lunedì"), W("alle"), HM(10, 30)>>} ELSE {})

\* C23: when the resolver anchors on a weekday name, the date it returns is 1
\* to 7 days after the date of the clock, never the date of the clock: the days
\* ahead are (named - today) mod 7, with 0 replaced by 7; "lunedì alle 10:30"
\* on a Monday is 10:30 of the Monday after.
C23_WeekdayStrictlyAhead ==
    \A g \in 1..7 : \A text \in WeekdayTexts(g) :
        Parsed(text) =>
            LET today == DayOf(now) % 7
                named == g - 1
                d == (named - today + 7) % 7
                days_ahead == IF d = 0 THEN 7 ELSE d
            IN  /\ returned.result # NoValue
                /\ returned.result[1] \div (24 * 60) = (now \div (24 * 60)) + days_ahead
                /\ returned.result[1] \div (24 * 60) # now \div (24 * 60)
                /\ (text = <<W("lunedì"), W("alle"), HM(10, 30)>> /\ today = 0)
                       => returned.result[1] = now + 7 * 24 * 60 - 7

\* "lunedì alle 10:30" was resolved at 10:37 of Monday 2024-01-01: the value
\* is 10:30 of Monday 2024-01-08
C23_MondayOnMonday ==
    /\ now = 10 * 60 + 37
    /\ Parsed(<<W("lunedì"), W("alle"), HM(10, 30)>>)
    /\ returned.result = Some(7 * 24 * 60 + 10 * 60 + 30)

\* the texts of the corpus anchored on oggi, domani or dopodomani alone, with
\* the days they add and the hour and minute they name (09:00 when they name none)
RelativeCases ==
    {<<<<W("oggi")>>, 0, 9, 0>>,
     <<<<W("domani")>>, 1, 9, 0>>,
     <<<<W("dopodomani")>>, 2, 9, 0>>,
     <<<<W("Domani"), W("alle"), HM(15, 0)>>, 1, 15, 0>>,
     <<<<W("oggi"), N(18), W("ore")>>, 0, 18, 0>>,
     <<<<W("dopodomani"), W("alle"), N(8)>>, 2, 8, 0>>}

\* C24: for the anchors oggi, domani and dopodomani the resolver returns the
\* date of the clock plus 0, 1 and 2 days, at the time of the valid time
\* expression of the text and at 09:00 when the text has none, whatever the
\* hour and minute of the clock (an instant of the model is a whole minute: it
\* has no seconds); "domani alle 15:00" is 15:00 of the day after the clock's.
C24_RelativeAnchors ==
    \A case \in RelativeCases :
        Parsed(case[1]) =>
            returned.result =
                Some(((now \div (24 * 60)) + case[2]) * 24 * 60 + case[3] * 60 + case[4])

\* "Domani alle 15:00" was resolved at 23:30 of 2024-12-31, the 366th day of
\* the model: the value is 15:00 of 2025-01-01
C24_TomorrowAt15 ==
    /\ now = 365 * 24 * 60 + 23 * 60 + 30
    /\ Parsed(<<W("Domani"), W("alle"), HM(15, 0)>>)
    /\ returned.result = Some(366 * 24 * 60 + 15 * 60)

\* the time expression the first of the three patterns that matches the text
\* finds, in range or not; None when no pattern matches
FirstTimeMatch(text) ==
    IF TimeHM(text) # NoValue THEN TimeHM(text)
    ELSE IF TimeOre(text) # NoValue THEN TimeOre(text)
    ELSE TimeAlle(text)

\* C25: the time of day is decided by the first of the patterns HH:MM, HH and
\* the hour word, "alle HH[:MM]" that matches the text: the value has its hour
\* and minute when they are in range, and 09:00 when they are not, whatever a
\* later pattern would find.
C25_FirstTimePatternDecides ==
    \A text \in ResolverTexts :
        (Parsed(text) /\ returned.result # NoValue) =>
            LET first == FirstTimeMatch(Lower(text))
                hour == IF first # NoValue /\ first[1][1] \in 0..23 /\ first[1][2] \in 0..59
                        THEN first[1][1] ELSE 9
                minute == IF first # NoValue /\ first[1][1] \in 0..23 /\ first[1][2] \in 0..59
                          THEN first[1][2] ELSE 0
            IN  returned.result[1] % (24 * 60) = hour * 60 + minute

\* the date anchors a lower-cased text contains
HasDmy(text) == \E i \in 1..Len(text) : text[i].k = "dmy"
HasRelativeDay(text) == \E i \in 1..Len(text) : text[i] \in {W("oggi"), W("domani"), W("dopodomani")}
HasWeekdayName(text) == \E i \in 1..Len(text) : \E g \in 1..7 : text[i] = W(giorni[g])

\* the first DD/MM[/YYYY] of the text is no day of the calendar
FirstDmyImpossible(text, year) ==
    /\ HasDmy(text)
    /\ LET tok == text[CHOOSE i \in 1..Len(text) :
                          text[i].k = "dmy" /\ \A j \in 1..(i - 1) : text[j].k # "dmy"]
       IN  ~ValidDate(IF tok.c # 0 THEN tok.c ELSE year, tok.b, tok.a)

\* C26: the resolver returns None exactly when the text contains no date
\* anchor: no DD/MM, none of oggi, domani, dopodomani, no weekday name.
C26_NullIffNoAnchor ==
    \A text \in ResolverTexts :
        Parsed(text) =>
            (returned.result = NoValue <=>
                 ~(HasDmy(Lower(text)) \/ HasRelativeDay(Lower(text))
                      \/ HasWeekdayName(Lower(text))))

\* C26, as the resolver behaves: it returns None exactly when no date anchor
\* resolves, that is when the text contains no date anchor, or when its first
\* DD/MM is not a day of the calendar and the text names no weekday (the words
\* oggi, domani and dopodomani are not looked for once a DD/MM has matched).
C26_NullIffNoAnchorResolves ==
    \A text \in ResolverTexts :
        Parsed(text) =>
            (returned.result = NoValue <=>
                 \/ ~(HasDmy(Lower(text)) \/ HasRelativeDay(Lower(text))
                         \/ HasWeekdayName(Lower(text)))
                 \/ /\ FirstDmyImpossible(Lower(text), YearOf(now))
                    /\ ~HasWeekdayName(Lower(text)))

\* "31/02 domani" was resolved: the value is None although the text holds the
\* word domani
C26_ImpossibleDateIsNull ==
    /\ Parsed(<<DMY(31, 2, 0), W("domani")>>)
    /\ returned.result = NoValue

\* the date the first of the four date patterns that matches the text stands
\* for, None when it stands for no day of the calendar; the weekday scan when
\* none of the four matches
FirstAnchorDate(text, clock) ==
    IF HasDmy(text)
    THEN _parse_date_dmy(text[CHOOSE i \in 1..Len(text) :
                                  text[i].k = "dmy" /\ \A j \in 1..(i - 1) : text[j].k # "dmy"],
                         YearOf(clock))
    ELSE IF \E i \in 1..Len(text) : text[i] = W("oggi") THEN Some(clock)
    ELSE IF \E i \in 1..Len(text) : text[i] = W("domani") THEN Some(clock + 24 * 60)
    ELSE IF \E i \in 1..Len(text) : text[i] = W("dopodomani") THEN Some(clock + 2 * 24 * 60)
    ELSE WeekdayAnchor(text, clock)

\* C29: the date anchors are tried in the order DD/MM[/YYYY], oggi, domani,
\* dopodomani and the first that matches the text decides the date; the weekday
\* names are consulted only when none of the four matched; a DD/MM without a
\* year is that day of the year of the clock; no other anchor of the text has a
\* part in the value.
C29_FirstAnchorDecides ==
    \A text \in ResolverTexts :
        Parsed(text) =>
            LET date == FirstAnchorDate(Lower(text), now)
            IN  IF date = NoValue THEN returned.result = NoValue
                ELSE /\ returned.result # NoValue
                     /\ returned.result[1] \div (24 * 60) = date[1] \div (24 * 60)

\* an entry of the keyword list or of the phrase list occurs in the text
ListedEntryIn(text) ==
    \/ \E n \in 1..Len(keywords_booking) : KeyIn(keywords_booking[n], text)
    \/ \E n \in 1..Len(booking_phrases) : KeyIn(booking_phrases[n], text)

\* the texts of the corpus that contain an entry of the lists once they are
\* lower-cased: a keyword ("visita", "prenotare", "domani alle", "mercoledì
\* alle"), a keyword inside a longer word ("rete" in "parete"), a phrase ("hai
\* tempo", "oggi verso sera")
IntentExpected ==
    {TxtPrenota, TxtVisita, TxtDomani15,
     <<W("hai"), W("tempo")>>,
     <<W("oggi"), W("verso"), W("sera")>>,
     <<W("la"), W("parete")>>,
     <<W("mercoledì"), W("alle"), HM(15, 0)>>}

\* C27: the intent detector returns true if and only if an entry of the
\* keyword list or of the phrase list occurs in the lower-cased text, false for
\* every text that contains none, and a call of it changes no session.
C27_IntentIffListed ==
    [][\A text \in IntentTexts :
          (returned'.op = "detect_booking_intent" /\ returned'.text = text) =>
              /\ returned'.result = ListedEntryIn(Lower(text))
              /\ returned'.result = (text \in IntentExpected)
              /\ booking_flows' = booking_flows
              /\ registration_flows' = registration_flows]_vars

\* the detector was called on "hai tempo" while a booking session was open:
\* it answered true and the session is as /prenota left it
C27_PhraseHeard ==
    /\ returned.op = "detect_booking_intent"
    /\ returned.text = <<W("hai"), W("tempo")>>
    /\ returned.result = TRUE
    /\ booking_flows = Put(EmptyDict, 2, NewBooking("waiting_datetime", NoValue, NoValue))

-----------------------------------------------------------------------------
(* The runs of a user who comes back: the data file holds the profile of the  *)
(* first user too, registered in an earlier run, with one appointment.        *)

ReturningUsers ==
    Put(StoredUsers, 1,
        [telegram_name |-> first_name(1), nome |-> <<W("Mario")>>, cognome |-> <<W("Rossi")>>,
         email |-> <<W("mario@example.com")>>, telefono |-> TxtPhone,
         via |-> <<W("Via"), W("Roma"), N(1)>>, citta |-> <<W("Milano")>>,
         registration_date |-> 0, total_appointments |-> 1,
         last_appointment |-> Some(10 * 60)])

InitReturning ==
    /\ now = StartClock
    /\ service \in {"ok", "none"}
    /\ users_data = ReturningUsers
    /\ registration_flows = EmptyDict
    /\ booking_flows = EmptyDict
    /\ insert_calls = <<>>
    /\ register_calls = <<>>
    /\ tasks = <<>>
    /\ reply = OtherMessage
    /\ users_file = users_data
    /\ conversation_history = EmptyDict
    /\ returned = NoCall

SpecReturning == InitReturning /\ [][NextSlots]_vars

\* C28: a profile is created once: once a profile is stored, no step replaces
\* it (the user, the name, the contacts and the registration date stay), sets
\* its counter of appointments back or forgets its last appointment.
C28_ProfileCreatedOnce ==
    [][\A u \in DOMAIN users_data :
          /\ u \in DOMAIN users_data'
          /\ \A field \in {"telegram_name", "nome", "cognome", "email", "telefono", "via",
                           "citta", "registration_date"} :
                 users_data'[u][field] = users_data[u][field]
          /\ users_data'[u].total_appointments >= users_data[u].total_appointments
          /\ users_data[u].last_appointment # NoValue
                 => users_data'[u].last_appointment # NoValue]_vars

-----------------------------------------------------------------------------
(* Properties of the inputs a registration step turns down. *)

\* the texts a registration session may be sent
RegistrationAttempts ==
    {TxtMario, TxtRossi, TxtEmail, TxtForse, TxtPhone,
     <<W("mario@example")>>, <<W("mario.rossi")>>}

\* the outcomes of the extraction call on a text, among them an answer that
\* holds no letter
ExtractionOutcomes(text) == AiOutcomes(text) \cup {[raised |-> FALSE, content |-> <<N(123)>>]}

\* the session of user u is at the name or surname step and no name can be
\* extracted from the text (the service finds none or answers with digits; or
\* it raises and the text is a telephone number, in which the patterns of the
\* fallback find no name), or the session is at the email step and the text
\* lacks "@" or lacks "."
TurnedDown(u, text, ai) ==
    /\ u \in DOMAIN registration_flows
    /\ \/ /\ registration_flows[u].step \in {"waiting_nome", "waiting_cognome"}
          /\ \/ ~ai.raised /\ ai.content \in {<<W("NESSUN_NOME")>>, <<N(123)>>}
             \/ ai.raised /\ text = TxtPhone
       \/ /\ registration_flows[u].step = "waiting_email"
          /\ text \in {TxtForse, <<W("mario@example")>>, <<W("mario.rossi")>>}

\* C30: in a registration session, an input from which no name can be
\* extracted at the name or surname step, and an input that lacks "@" or lacks
\* "." at the email step, leave the session at the same step with the same
\* fields, keep it open and save no profile.
C30_TurnedDownKeepsStep ==
    [][\A u \in Users : \A text \in RegistrationAttempts : \A ai \in ExtractionOutcomes(text) :
          \/ /\ u \in DOMAIN registration_flows'
             /\ registration_flows' = registration_flows
             /\ register_calls' = register_calls
             /\ users_data' = users_data
          \/ ~TurnedDown(u, text, ai)
          \/ ~(handle_text_message(u, text, ai, "ok") /\ UNCHANGED <<now, service, returned>>)]_vars

\* an email was just turned down: the session of the user is still at the
\* email step with the name and the surname and no email, and nothing was saved
C30_EmailAskedAgain ==
    \E u \in DOMAIN registration_flows :
        /\ reply = Message(u, "invalid_email")
        /\ registration_flows[u].step = "waiting_email"
        /\ registration_flows[u].data.nome = Some(<<W("Mario")>>)
        /\ registration_flows[u].data.cognome = Some(<<W("Rossi")>>)
        /\ registration_flows[u].data.email = NoValue
        /\ register_calls = <<>>
        /\ u \notin DOMAIN users_data

-----------------------------------------------------------------------------
(* The city step of a registration and the write of the data file. *)

\* the step is the city step of the registration of user u, and the write of
\* the data file failed: the file does not hold the profile the step built
CitySaveFailed(u) ==
    /\ u \in DOMAIN registration_flows
    /\ registration_flows[u].step = "waiting_citta"
    /\ Len(register_calls') = Len(register_calls) + 1
    /\ users_file' # users_data'

\* C31: the city step of a registration destroys the registration session of
\* the user whether the profile was saved or not; when the save failed the
\* user is not registered afterwards, and the save is not tried again (the
\* step calls register_user once).
C31_FailedSaveLeavesUnregistered ==
    [][\A u \in Users :
          /\ (u \in DOMAIN registration_flows
               /\ registration_flows[u].step = "waiting_citta"
               /\ Len(register_calls') > Len(register_calls))
              => /\ u \notin DOMAIN registration_flows'
                 /\ Len(register_calls') = Len(register_calls) + 1
          /\ CitySaveFailed(u) => ~is_user_registered(u)']_vars

-----------------------------------------------------------------------------
(* Sentences the dialogue does not ask for: the dialogues of two registered  *)
(* users by text, voice and command, in which a word of refusal may be given  *)
(* where the title is expected, and an appointment may be asked for an hour   *)
(* of today that has gone by.                                                 *)

\* a word of refusal typed where the title is expected
RefusalAsTitle(u) ==
    /\ "text" \in Channels(u)
    /\ u \notin DOMAIN registration_flows
    /\ is_user_registered(u)
    /\ u \in DOMAIN booking_flows
    /\ booking_flows[u].step = "waiting_title"
    /\ \E api \in ApiChoices(u) : handle_text_message(u, TxtNo, CompletionRaised, api)
    /\ UNCHANGED <<now, service, returned>>

\* a sentence that asks for an appointment today, said after 09:00 by a user
\* with no session
PastSentence(u) ==
    /\ u \notin DOMAIN booking_flows
    /\ \/ /\ "text" \in Channels(u)
          /\ u \notin DOMAIN registration_flows
          /\ is_user_registered(u)
          /\ handle_text_message(u, TxtPrenotaOggi, CompletionRaised, "ok")
       \/ /\ "voice" \in Channels(u)
          /\ handle_voice_message(u, TxtPrenotaOggi, CompletionRaised, "ok")
    /\ UNCHANGED <<now, service, returned>>

NextTitles ==
    \/ \E u \in Users : TextMessage(u)
    \/ \E u \in Users : VoiceMessage(u)
    \/ \E u \in Users : Command(u)
    \/ \E u \in Users : RefusalAsTitle(u)
    \/ \E u \in Users : PastSentence(u)

SpecTitles == InitReturning /\ [][NextTitles]_vars

\* the step is the handling of the text by the session of user u at the title
\* step, typed or spoken
TitleInput(u, text) ==
    /\ u \in DOMAIN booking_flows
    /\ booking_flows[u].step = "waiting_title"
    /\ \/ /\ u \notin DOMAIN registration_flows
          /\ is_user_registered(u)
          /\ \E api \in ApiOutcomes : handle_text_message(u, text, CompletionRaised, api)
       \/ \E api \in ApiOutcomes : handle_voice_message(u, text, CompletionRaised, api)
    /\ UNCHANGED <<now, service, returned>>

\* C32: every text received at the title step is stored as the title, with
\* the end one hour after the start, and the session moves to the
\* confirmation step, whatever the availability check returned (free,
\* occupied, failed, no service); the session never stays at the title step.
C32_TitleAlwaysAdvances ==
    [][\A u \in Users : \A text \in {TxtVisita, TxtNo} :
          \/ /\ u \in DOMAIN booking_flows'
             /\ booking_flows'[u].step = "waiting_confirmation"
             /\ booking_flows'[u].data.title = Some(text)
             /\ booking_flows'[u].data.end_time =
                    Some(booking_flows'[u].data.datetime[1] + 60)
             /\ booking_flows'[u].data.datetime = booking_flows[u].data.datetime
          \/ ~TitleInput(u, text)]_vars

\* the user, who holds an appointment for tomorrow 15:00, gave "no" as the
\* title of a second one for the same hour and is asked to confirm it
C32_OccupiedSlotConfirmed ==
    /\ service = "ok"
    /\ 1 \in DOMAIN booking_flows
    /\ booking_flows[1].step = "waiting_confirmation"
    /\ booking_flows[1].data.title = Some(TxtNo)
    /\ booking_flows[1].data.datetime = Some(Tomorrow15)
    /\ ~check_availability(Tomorrow15, Tomorrow15 + 60, 1, "ok").is_free

-----------------------------------------------------------------------------
(* Assent given early: the runs of one user who may also say "Sì" while the  *)
(* session still waits for the date or for the title.                         *)

\* a word of assent typed or spoken before the summary was shown
EarlyAssent(u) ==
    /\ u \in DOMAIN booking_flows
    /\ booking_flows[u].step \in {"waiting_datetime", "waiting_title"}
    /\ \E api \in ApiChoices(u) :
           \/ /\ "text" \in Channels(u)
              /\ u \notin DOMAIN registration_flows
              /\ is_user_registered(u)
              /\ handle_text_message(u, TxtSi, CompletionRaised, api)
           \/ /\ "voice" \in Channels(u)
              /\ handle_voice_message(u, TxtSi, CompletionRaised, api)
    /\ UNCHANGED <<now, service, returned>>

NextAssent ==
    \/ \E u \in Racers : TextMessage(u)
    \/ \E u \in Racers : VoiceMessage(u)
    \/ \E u \in Racers : CallbackQuery(u)
    \/ \E u \in Racers : Command(u)
    \/ \E u \in Racers : EarlyAssent(u)

SpecAssent == Init /\ [][NextAssent]_vars

\* the session of user u waits for the date or for the title
Early(u) ==
    /\ u \in DOMAIN booking_flows
    /\ booking_flows[u].step \in {"waiting_datetime", "waiting_title"}

\* the step is the handling of the button confirm_yes pressed by user u
YesPressed(u) ==
    /\ \E api \in ApiOutcomes : handle_inline_callback(u, "confirm_yes", <<>>, api)
    /\ UNCHANGED <<now, service, returned>>

\* the step is the handling of the text "Sì" of user u, typed or spoken
YesSaid(u) ==
    /\ \E api \in ApiOutcomes :
           \/ \E ai \in AiChoices(u, TxtSi) : handle_text_message(u, TxtSi, ai, api)
           \/ handle_voice_message(u, TxtSi, CompletionRaised, api)
    /\ UNCHANGED <<now, service, returned>>

\* C33: an insert request is sent only by a step that starts with the session
\* of its user at the confirmation step; the button confirm_yes and the text
\* "Sì" received while the session waits for the date or for the title send
\* none, and the button leaves the session as it was.
C33_InsertOnlyAtConfirmation ==
    [][\A u \in Users :
          /\ (\E i \in 1..Len(insert_calls') :
                  i > Len(insert_calls) /\ insert_calls'[i].user_id = u)
              => /\ u \in DOMAIN booking_flows
                 /\ booking_flows[u].step = "waiting_confirmation"
          /\ Early(u)
              => /\ (insert_calls' = insert_calls /\ booking_flows' = booking_flows)
                    \/ ~YesPressed(u)
                 /\ insert_calls' = insert_calls \/ ~YesSaid(u)]_vars

\* "Sì" was given where the title was expected: it is the title of the session,
\* which now waits for the confirmation, and the backend has received nothing
C33_AssentTakenAsTitle ==
    /\ 1 \in DOMAIN booking_flows
    /\ booking_flows[1].step = "waiting_confirmation"
    /\ booking_flows[1].data.title = Some(TxtSi)
    /\ insert_calls = <<>>

-----------------------------------------------------------------------------
(* The dates a session takes. *)

\* C34: a date stored in a booking session is not earlier than the clock at
\* the moment it is stored, on every path that stores one (the text of the
\* date step, a time button, the sentence that starts a session); so a session
\* at the title step or at the confirmation step never holds a date that was
\* in the past when it was taken.
C34_StoredDateNotPast ==
    [][\A u \in Users :
          (/\ u \in DOMAIN booking_flows'
           /\ booking_flows'[u].data.datetime # NoValue
           /\ \/ u \notin DOMAIN booking_flows
              \/ booking_flows[u].data.datetime # booking_flows'[u].data.datetime)
          => ~(booking_flows'[u].data.datetime[1] < now)]_vars

-----------------------------------------------------------------------------
(* Who may commit. *)

\* C35: an insert request is only ever sent for a user who is registered at
\* that moment; no sequence of commands, buttons, voice messages and texts
\* lets a user without a profile commit an appointment.
C35_InsertOnlyForRegistered ==
    [][\A u \in Users :
          (\E i \in 1..Len(insert_calls') :
               i > Len(insert_calls) /\ insert_calls'[i].user_id = u)
          => is_user_registered(u)]_vars

-----------------------------------------------------------------------------
(* Voice and text. *)

\* the step is the handling of a voice message of user u transcribed as text
Spoken(u, text) ==
    /\ \E api \in ApiOutcomes : handle_voice_message(u, text, CompletionRaised, api)
    /\ UNCHANGED <<now, service, returned>>

\* the step is what the text handler makes of the same text of user u, for
\* some outcome of the outside calls
AsTypedMessage(u, text) ==
    /\ \E ai \in AiOutcomes(text), api \in ApiOutcomes : handle_text_message(u, text, ai, api)
    /\ UNCHANGED <<now, service, returned>>

\* C36: a voice message transcribed as a text is routed as the typed text is:
\* from the same profile store and the same open sessions, the step the voice
\* handler takes is a step the text handler takes, so that the booking session
\* and the registration session are the same afterwards.
C36_VoiceRoutedAsText ==
    [][\A u \in Users : \A text \in AnyTexts :
          AsTypedMessage(u, text) \/ ~Spoken(u, text)]_vars

-----------------------------------------------------------------------------
(* The owner tag of an event. *)

\* C37: the description of an event inserted by the booking of a user holds
\* the owner tag of that user and the owner tag of no other user, whatever the
\* user gave as profile fields and as title; so no user can make an
\* appointment count as a conflict of another or show in another's list.
C37_OwnerTagOnly ==
    \A i \in 1..Len(insert_calls) :
        LET owner == insert_calls[i].user_id
            description == insert_calls[i].body.description
        IN  /\ SeqIn(user_tag(owner), description)
            /\ \A b \in Users \ {owner} : ~SeqIn(user_tag(b), description)

-----------------------------------------------------------------------------
(* A session started while a commit is suspended. *)

-----------------------------------------------------------------------------
(* Conversations: sentences that belong to no dialogue are answered by the     *)
(* assistant and recorded in the history of the user.                          *)

\* the chat completion returned an answer
Answered == [raised |-> FALSE, content |-> <<W("Certo")>>]

\* the exchanges of one user that are explored
MaxExchanges == 1

\* a sentence with no booking keyword, typed or said, that the assistant answers
Chat(u) ==
    /\ Len(get_user_history(u)) < 2 * MaxExchanges
    /\ ~booking_intent[TxtForse]
    /\ \E channel \in {"text", "voice"} \cap Channels(u) :
           /\ IF channel = "text"
              THEN /\ u \notin DOMAIN registration_flows
                   /\ is_user_registered(u)
                   /\ u \notin DOMAIN booking_flows
                   /\ handle_text_message(u, TxtForse, Answered, "ok")
              ELSE /\ u \notin DOMAIN booking_flows
                   /\ handle_voice_message(u, TxtForse, Answered, "ok")
           /\ UNCHANGED <<now, service, returned>>

\* clear_command: /clear
ClearCommand(u) ==
    /\ "command" \in Channels(u)
    /\ conversation_history' = clear_user_history(conversation_history, u)
    /\ reply' = OtherMessage
    /\ UNCHANGED <<now, service, returned, users_data, users_file, registration_flows,
                   booking_flows, insert_calls, register_calls, tasks>>

NextFrame ==
    \/ \E u \in Users : TextMessage(u)
    \/ \E u \in Users : VoiceMessage(u)
    \/ \E u \in Users : CallbackQuery(u)
    \/ \E u \in Users : Command(u)
    \/ \E u \in Users : Chat(u)
    \/ \E u \in Users : ClearCommand(u)

SpecFrame == Init /\ [][NextFrame]_vars

\* what the bot holds about user b: the value under the key, if any
Held(d, b) == IF b \in DOMAIN d THEN <<d[b]>> ELSE <<>>

Untouched(b) ==
    /\ Held(booking_flows', b) = Held(booking_flows, b)
    /\ Held(registration_flows', b) = Held(registration_flows, b)
    /\ Held(users_data', b) = Held(users_data, b)
    /\ Held(conversation_history', b) = Held(conversation_history, b)

EventOf(a) ==
    \/ TextMessage(a)
    \/ VoiceMessage(a)
    \/ CallbackQuery(a)
    \/ Command(a)
    \/ Chat(a)
    \/ ClearCommand(a)

\* C39: every event of a user (text, voice, button, command) leaves the
\* booking session, the registration session, the profile and the
\* conversation history of every other user as they were.
C39_OthersUntouched ==
    [][\A b \in Users : Untouched(b) \/ \A a \in Users \ {b} : ~EventOf(a)]_vars

\* the first user booked while the second had a session open and a
\* conversation recorded
C39_BookedBesideOpenSession ==
    /\ reply = Message(1, "created")
    /\ 2 \in DOMAIN booking_flows
    /\ 2 \in DOMAIN conversation_history
    /\ 1 \in DOMAIN conversation_history

-----------------------------------------------------------------------------
(* The history of a conversation under add_to_history and clear_user_history.  *)
(* The entries added since the last clearing are numbered 1, 2, 3, ... by      *)
(* their content, and their roles alternate as in generate_response.           *)

\* the entries added to one history since its last clearing
MaxAdded == 12

\* the number of the entry added last to the history of u, 0 after a clearing
LastAdded(u) ==
    LET h == get_user_history(u)
    IN  IF h = <<>> THEN 0 ELSE h[Len(h)].content[1].a

NextEntry(u) ==
    [role |-> IF LastAdded(u) % 2 = 0 THEN "user" ELSE "assistant",
     content |-> <<N(LastAdded(u) + 1)>>]

AddToHistory(u) ==
    /\ LastAdded(u) < MaxAdded
    /\ conversation_history' =
           add_to_history(conversation_history, u, NextEntry(u).role, NextEntry(u).content)
    /\ UNCHANGED <<now, service, returned, users_data, users_file, registration_flows,
                   booking_flows, insert_calls, register_calls, tasks, reply>>

ClearHistory(u) ==
    /\ conversation_history' = clear_user_history(conversation_history, u)
    /\ UNCHANGED <<now, service, returned, users_data, users_file, registration_flows,
                   booking_flows, insert_calls, register_calls, tasks, reply>>

NextHistory ==
    \/ \E u \in Users : AddToHistory(u)
    \/ \E u \in Users : ClearHistory(u)

SpecHistory == Init /\ [][NextHistory]_vars

\* the last entries of a list, at most ten of them, in the order of the list
LastTen(all) ==
    LET n == Len(all)
        kept == IF n > 10 THEN 10 ELSE n
    IN  [i \in 1..kept |-> all[n - kept + i]]

\* the history of u after the step
HistoryAfter(u) == IF u \in DOMAIN conversation_history' THEN conversation_history'[u] ELSE <<>>

\* C40: after any sequence of add_to_history and clear_user_history, the
\* history of each user holds at most 10 entries, and they are the entries
\* added last since the last clearing, in the order they were added: an
\* addition leaves the last ten of the old entries followed by the new one,
\* and a clearing leaves none.
C40_HistoryIsLastTen ==
    [][\A u \in Users :
          /\ Len(HistoryAfter(u)) <= 10
          /\ \/ HistoryAfter(u) = LastTen(Append(get_user_history(u), NextEntry(u)))
             \/ ~AddToHistory(u)
          /\ \/ HistoryAfter(u) = <<>>
             \/ ~ClearHistory(u)]_vars

\* twelve entries were added to the history of the first user, which holds
\* the third to the twelfth, while the second user has none
C40_TwelveAddedTenKept ==
    /\ Len(get_user_history(1)) = 10
    /\ get_user_history(1)[1].content = <<N(3)>>
    /\ get_user_history(1)[10].content = <<N(12)>>
    /\ 2 \notin DOMAIN conversation_history

====
